---- MODULE Spec2Model ----
(***************************************************************************)
(* A model of the Cisco IOS "show" parsers of bin/: the line scanners of   *)
(* show cdp neighbors, show interfaces, show interfaces status, show       *)
(* logging and show ip route, the filter combinator get_filter_result, and *)
(* the control flow of the scripts' main functions.                        *)
(*                                                                         *)
(* Python strings are modelled as sequences of one-character strings.  An  *)
(* input line is named in the state by its text (a TLA+ string) and the    *)
(* tables CdpChars, IfChars, StatusChars, LogChars and RouteChars give its *)
(* characters, so that slicing, strip() and the regular expressions act on *)
(* the characters as the code does.                                        *)
(***************************************************************************)
EXTENDS Integers, Sequences, FiniteSets, TLC

VARIABLES
  cdp_lines,         \* cdp parse: the lines read so far by the for loop
  cdp_n,             \* cdp parse: n, the pending lines of the current neighbor
  cdp_is_section,    \* cdp parse: is_section
  cdp_out,           \* cdp parse: the calls of make_dict_by_neighbor_lists / yields
  cdp_pc,            \* cdp parse: "run" in the for loop, "yield" suspended, "done" after it
  if_lines,          \* interfaces parse: the lines read so far by the for loop
  if_is_section,     \* interfaces parse: is_section
  if_d,              \* interfaces parse: d, the record being filled
  if_out,            \* interfaces parse: the records yielded
  if_pc,             \* interfaces parse: "run" in the for loop, "yield_..." suspended, "done"
  st_lines,          \* interfaces status parse: the lines read so far by the for loop
  st_is_section,     \* interfaces status parse: is_section
  st_out,            \* interfaces status parse: the records yielded
  st_pc,             \* interfaces status parse: "run" inside the for loop, "done" after it
  rt_lines,          \* parse_lines: the lines read so far by the for loop
  rt_current_proto,  \* parse_lines: current_proto
  rt_current_mask,   \* parse_lines: current_mask
  rt_current_addr,   \* parse_lines: current_addr
  rt_out,            \* parse_lines: the entries yielded
  rt_pc,             \* parse_lines: "run", "done", or "raised" (an exception left it)
  new_args,          \* IPv4RouteEntry(...): the arguments of a direct construction
  new_obj,           \* IPv4RouteEntry(...): the object constructed, once it is
  flt_d,             \* get_filter_result: the record d
  flt_funcs,         \* get_filter_result: funcs, the list of filter functions
  flt_result,        \* get_filter_result: what the call returned
  flt_pc,            \* get_filter_result: "call" before the call, "returned" after
  main_script,       \* main: the script whose main runs
  main_file,         \* main: the input file: "missing", or its lines
  main_disk,         \* main: what becomes of the output file (ok, IOError, csv.Error)
  main_lines,        \* main: lines, what get_lines returned
  main_results,      \* main: results, the records the parser yielded
  main_csv,          \* main: the CSV output file: "absent", or "written"
  main_ret,          \* main: the value main returned
  main_pc,           \* main: the statement main is at
  gen_parser,        \* two generators: the class of the parser instance, "" before it is made
  gen_lines,         \* two generators: the lines each generator has read so far
  gen_frames,        \* two generators: the locals of each generator (with out, its yields)
  gen_pc,            \* two generators: "created", "suspended", "done" or "raised"
  call_fn,           \* a direct call: the function called, "" before the call
  call_args,         \* a direct call: its arguments
  call_ret           \* a direct call: what it returned

cdp_vars == <<cdp_lines, cdp_n, cdp_is_section, cdp_out, cdp_pc>>

if_vars == <<if_lines, if_is_section, if_d, if_out, if_pc>>

st_vars == <<st_lines, st_is_section, st_out, st_pc>>

rt_vars == <<rt_lines, rt_current_proto, rt_current_mask, rt_current_addr, rt_out, rt_pc,
             new_args, new_obj>>

flt_vars == <<flt_d, flt_funcs, flt_result, flt_pc>>

main_vars == <<main_script, main_file, main_disk, main_lines, main_results, main_csv,
               main_ret, main_pc>>

gen_vars == <<gen_parser, gen_lines, gen_frames, gen_pc>>

call_vars == <<call_fn, call_args, call_ret>>

vars == <<cdp_vars, if_vars, st_vars, rt_vars, flt_vars, main_vars, gen_vars, call_vars>>

-----------------------------------------------------------------------------
(* Python str operations on sequences of characters.                       *)

\* The characters str.isspace() accepts, which strip(), rstrip() and the
\* classes \s and \S of re go by: space, \t, \n, \r, \f and, written as
\* the characters themselves, U+000B, U+001C to U+001F, U+0085, U+00A0 and
\* U+1680.  (The white space from U+2000 on, U+2000 to U+200A, U+2028,
\* U+2029, U+202F, U+205F and U+3000, cannot stand in a string of this
\* module; no line of the model holds one.)
Whitespace ==
  {" ", "\t", "\n", "\r", "\f", "", "", "", "", "", "", " ", " "}

Digits == {"0", "1", "2", "3", "4", "5", "6", "7", "8", "9"}

Min(a, b) == IF a < b THEN a ELSE b

\* body(x) for x the value of e: a local variable of the code that is
\* assigned once and read in several places.
Bind(e, body(_)) == CHOOSE r \in {body(x) : x \in {e}} : TRUE

\* s[a:b] for 0 <= a <= b: the characters at 0-based positions a .. b-1,
\* cut at the end of s.
Slice(s, a, b) == SubSeq(s, a + 1, Min(b, Len(s)))

\* s[a:]
SliceFrom(s, a) == SubSeq(s, a + 1, Len(s))

\* s.rstrip()
rstrip(s) ==
  Bind({i \in 1..Len(s) : s[i] \notin Whitespace}, LAMBDA keep :
    SubSeq(s, 1, IF keep = {} THEN 0 ELSE CHOOSE i \in keep : \A j \in keep : j <= i))

\* s.lstrip()
lstrip(s) ==
  Bind({i \in 1..Len(s) : s[i] \notin Whitespace}, LAMBDA keep :
    SubSeq(s, IF keep = {} THEN Len(s) + 1 ELSE CHOOSE i \in keep : \A j \in keep : i <= j,
           Len(s)))

\* s.strip()
strip(s) == Bind(rstrip(s), LAMBDA right : lstrip(right))

\* s.find(sub): the lowest 0-based index where sub occurs in s, or -1.
find(s, sub) ==
  LET hits == {i \in 1..(Len(s) - Len(sub) + 1) : SubSeq(s, i, i + Len(sub) - 1) = sub}
  IN  IF hits = {} THEN -1
      ELSE (CHOOSE i \in hits : \A j \in hits : i <= j) - 1

\* s.startswith(prefix)
startswith(s, prefix) ==
  Len(s) >= Len(prefix) /\ SubSeq(s, 1, Len(prefix)) = prefix

-----------------------------------------------------------------------------
(* OrderedDict: a sequence of <<key, value>> pairs in insertion order.     *)

EmptyDict == <<>>

DictKeys(d) == [i \in 1..Len(d) |-> d[i][1]]

DictHas(d, k) == \E i \in 1..Len(d) : d[i][1] = k

\* d[k] = v: replaces the value of a key already there, appends a new key.
DictSet(d, k, v) ==
  IF DictHas(d, k)
  THEN [i \in 1..Len(d) |-> IF d[i][1] = k THEN <<k, v>> ELSE d[i]]
  ELSE Append(d, <<k, v>>)

\* d.get(k, default)
DictGet(d, k, default) ==
  IF DictHas(d, k) THEN d[CHOOSE i \in 1..Len(d) : d[i][1] = k][2] ELSE default

-----------------------------------------------------------------------------
(* Python values where a variable or an attribute may hold more than one   *)
(* type: None, a str (its characters) or an int.                           *)

PyNone == [t |-> "NoneType"]

PyStr(s) == [t |-> "str", s |-> s]

PyInt(n) == [t |-> "int", n |-> n]

\* s.split(sep) for a one-character separator: the fields between the
\* occurrences of sep.
RECURSIVE split(_, _)
split(s, sep) ==
  LET at == {i \in 1..Len(s) : s[i] = sep}
  IN  IF at = {} THEN <<s>>
      ELSE LET i == CHOOSE i \in at : \A j \in at : i <= j
           IN  <<SubSeq(s, 1, i - 1)>> \o split(SubSeq(s, i + 1, Len(s)), sep)

\* The white space int(s) skips around a number: that of str.isspace
\* without U+001C to U+001F, which int takes for no white space.
IntSpace == Whitespace \ {"", "", "", ""}

\* s without the white space int() skips at its two ends.
IntStrip(s) ==
  Bind({i \in 1..Len(s) : s[i] \notin IntSpace}, LAMBDA keep :
    IF keep = {} THEN <<>>
    ELSE SubSeq(s, CHOOSE i \in keep : \A j \in keep : i <= j,
                CHOOSE i \in keep : \A j \in keep : j <= i))

\* The part of s that int(s) reads as digits: s without the white space
\* around it and without its sign.
IntDigits(s) ==
  Bind(IntStrip(s), LAMBDA b : IF b # <<>> /\ b[1] \in {"+", "-"} THEN Tail(b) ELSE b)

\* Whether int(s) accepts s: white space around, one sign, then decimal
\* digits with single underscores between them.  (The digits are 0 to 9;
\* the decimal digits of other scripts, which int reads as well, are not
\* among the characters of the model.)
IsNumeral(s) ==
  Bind(IntDigits(s), LAMBDA u :
    /\ u # <<>>
    /\ u[1] \in Digits
    /\ u[Len(u)] \in Digits
    /\ \A i \in 1..Len(u) : u[i] \in Digits \cup {"_"}
    /\ \A i \in 1..(Len(u) - 1) : ~(u[i] = "_" /\ u[i + 1] = "_"))

DigitValue(ch) ==
  LET digits == <<"0", "1", "2", "3", "4", "5", "6", "7", "8", "9">>
  IN  (CHOOSE i \in 1..10 : digits[i] = ch) - 1

\* The value of a string of digits and underscores, which fits TLC's
\* integers.
RECURSIVE DigitsValue(_)
DigitsValue(u) ==
  IF u = <<>> THEN 0
  ELSE IF u[Len(u)] = "_" THEN DigitsValue(SubSeq(u, 1, Len(u) - 1))
  ELSE 10 * DigitsValue(SubSeq(u, 1, Len(u) - 1)) + DigitValue(u[Len(u)])

\* int(s) for a string that int accepts.
int(s) ==
  Bind(IntStrip(s), LAMBDA b :
    IF b # <<>> /\ b[1] = "-" THEN 0 - DigitsValue(IntDigits(b))
    ELSE DigitsValue(IntDigits(b)))

\* s * n: the string s repeated n times.
Repeat(s, n) == [i \in 1..(Len(s) * n) |-> s[((i - 1) % Len(s)) + 1]]

\* The decimal digits of int(s) for a string of any length that int
\* accepts without a sign: its digits without the underscores and the
\* leading zeros ("0" for zero).
Numeral(s) ==
  Bind(SelectSeq(IntDigits(s), LAMBDA ch : ch # "_"), LAMBDA u :
    Bind({i \in 1..Len(u) : u[i] # "0"}, LAMBDA nz :
      IF nz = {} THEN <<"0">>
      ELSE SubSeq(u, CHOOSE i \in nz : \A j \in nz : i <= j, Len(u))))

\* The test "v is not None" where the code tests the truth of v.
TruthyNotNone(v) == v.t # "NoneType"

\* bool(v), as "if v:" and "v and ..." test it.
Truthy(v) ==
  CASE v.t = "NoneType" -> FALSE
    [] v.t = "int"      -> v.n # 0
    [] v.t = "str"      -> v.s # <<>>
    [] v.t = "list"     -> v.items # <<>>
    [] v.t = "dict"     -> v.items # <<>>
    [] OTHER            -> TRUE

PyList(items) == [t |-> "list", items |-> items]

PyDict(items) == [t |-> "dict", items |-> items]

-----------------------------------------------------------------------------
(* Regular expressions (module re).  A pattern is a sequence of elements,  *)
(* matched left to right with backtracking as re does: a repetition is     *)
(* greedy and gives back one character at a time, and the first complete   *)
(* match decides the groups.                                               *)

\* A literal string.
Lit(s) == [t |-> "lit", s |-> s]

\* A character class repeated lo to hi times, greedy; hi = -1 is no limit.
\* Classes: "d" is \d, "S" is \S, "s" is \s, "any" is the dot.
Rep(c, lo, hi) == [t |-> "rep", c |-> c, lo |-> lo, hi |-> hi]

\* The opening and closing parenthesis of capturing group g.
Open(g) == [t |-> "open", g |-> g]

Close(g) == [t |-> "close", g |-> g]

\* $ : the end of the string, or the place before a line break that ends
\* the string.
Eol == [t |-> "eol"]

InClass(c, ch) ==
  CASE c = "d"   -> ch \in Digits
    [] c = "S"   -> ch \notin Whitespace
    [] c = "s"   -> ch \in Whitespace
    [] c = "any" -> ch # "\n"

\* The characters of codes 1 to 255 in the order of their codes, the
\* characters the strings of the model are made of (with U+1680, a white
\* space, which has no place in the table).  The grave accent (96), which
\* a string of this module cannot hold, has its place kept by the empty
\* string.
Chr ==
  <<"", "", "", "", "", "", "", "", "\t", "\n", "", "\f", "\r",
    "", "", "", "", "", "", "", "", "", "", "", "", "", "",
    "", "", "", "", " ", "!", "\"", "#", "$", "%", "&", "'", "(", ")",
    "*", "+", ",", "-", ".", "/", "0", "1", "2", "3", "4", "5", "6", "7",
    "8", "9", ":", ";", "<", "=", ">", "?", "@", "A", "B", "C", "D", "E",
    "F", "G", "H", "I", "J", "K", "L", "M", "N", "O", "P", "Q", "R", "S",
    "T", "U", "V", "W", "X", "Y", "Z", "[", "\\", "]", "^", "_", "", "a",
    "b", "c", "d", "e", "f", "g", "h", "i", "j", "k", "l", "m", "n", "o",
    "p", "q", "r", "s", "t", "u", "v", "w", "x", "y", "z", "{", "|", "}",
    "~", "", "", "", "", "", "", "", "", "", "", "", "", "",
    "", "", "", "", "", "", "", "", "", "", "", "", "", "",
    "", "", "", "", "", "", " ", "¡", "¢", "£", "¤", "¥", "¦", "§",
    "¨", "©", "ª", "«", "¬", "­", "®", "¯", "°", "±", "²", "³", "´", "µ",
    "¶", "·", "¸", "¹", "º", "»", "¼", "½", "¾", "¿", "À", "Á", "Â", "Ã",
    "Ä", "Å", "Æ", "Ç", "È", "É", "Ê", "Ë", "Ì", "Í", "Î", "Ï", "Ð", "Ñ",
    "Ò", "Ó", "Ô", "Õ", "Ö", "×", "Ø", "Ù", "Ú", "Û", "Ü", "Ý", "Þ", "ß",
    "à", "á", "â", "ã", "ä", "å", "æ", "ç", "è", "é", "ê", "ë", "ì", "í",
    "î", "ï", "ð", "ñ", "ò", "ó", "ô", "õ", "ö", "÷", "ø", "ù", "ú", "û",
    "ü", "ý", "þ", "ÿ">>

CodeOf == [ch \in {Chr[k] : k \in DOMAIN Chr} \ {""} |-> CHOOSE k \in DOMAIN Chr : Chr[k] = ch]

\* ord(ch) for a character of Chr, 0 for a character the table lacks.
Ord(ch) == IF ch \in DOMAIN CodeOf THEN CodeOf[ch] ELSE 0

\* _sre.unicode_tolower, the lower case re.IGNORECASE goes by, on the
\* characters of Chr: the letters A to Z and U+00C0 to U+00DE (without the
\* sign U+00D7) have one, 32 places on.
LowerOf ==
  [ch \in {Chr[k] : k \in (65..90) \cup (192..214) \cup (216..222)} |-> Chr[CodeOf[ch] + 32]]

Lower(ch) == IF ch \in DOMAIN LowerOf THEN LowerOf[ch] ELSE ch

LitAt(s, pos, lit, ic) ==
  /\ pos + Len(lit) - 1 <= Len(s)
  /\ \A i \in 1..Len(lit) :
       IF ic THEN Lower(s[pos + i - 1]) = Lower(lit[i]) ELSE s[pos + i - 1] = lit[i]

\* The longest run of characters of class c in s from pos, at most hi long.
RunLen(s, pos, c, hi) ==
  LET stop == {i \in pos..Len(s) : ~InClass(c, s[i])}
      end  == IF stop = {} THEN Len(s) + 1
              ELSE CHOOSE i \in stop : \A j \in stop : i <= j
  IN  IF hi >= 0 THEN Min(end - pos, hi) ELSE end - pos

NoMatch == [ok |-> FALSE]

RECURSIVE MatchFrom(_, _, _, _, _, _)
RECURSIVE MatchRep(_, _, _, _, _, _, _)

\* Elements k.. of pattern re against s from position pos (1-based), with
\* the group boundaries caps found so far.
MatchFrom(re, ic, k, s, pos, caps) ==
  IF k > Len(re) THEN [ok |-> TRUE, end |-> pos, caps |-> caps]
  ELSE LET e == re[k] IN
    CASE e.t = "lit" ->
           IF LitAt(s, pos, e.s, ic)
           THEN MatchFrom(re, ic, k + 1, s, pos + Len(e.s), caps)
           ELSE NoMatch
      [] e.t = "rep" ->
           MatchRep(re, ic, k, s, pos, caps, RunLen(s, pos, e.c, e.hi))
      [] e.t = "open" ->
           MatchFrom(re, ic, k + 1, s, pos, (e.g :> <<pos, pos>>) @@ caps)
      [] e.t = "close" ->
           MatchFrom(re, ic, k + 1, s, pos, (e.g :> <<caps[e.g][1], pos>>) @@ caps)
      [] e.t = "eol" ->
           IF pos = Len(s) + 1 \/ (pos = Len(s) /\ s[pos] = "\n")
           THEN MatchFrom(re, ic, k + 1, s, pos, caps)
           ELSE NoMatch

\* The repetition re[k] taking at most cnt characters: the match of the
\* rest of the pattern after the largest number of characters that lets
\* the rest match, which is where giving back one character at a time
\* stops.
MatchRep(re, ic, k, s, pos, caps, cnt) ==
  LET tries == {<<c, MatchFrom(re, ic, k + 1, s, pos + c, caps)>> : c \in re[k].lo..cnt}
      good  == {p \in tries : p[2].ok}
  IN  IF good = {} THEN NoMatch
      ELSE (CHOOSE p \in good : \A q \in good : q[1] <= p[1])[2]

\* re.match(pattern, s): a match at the beginning of s.
re_match(re, ic, s) == MatchFrom(re, ic, 1, s, 1, <<>>)

\* The match at the lowest position of s from pos on where the pattern
\* matches.
SearchFrom(re, ic, s, pos) ==
  LET tries == {<<p, MatchFrom(re, ic, 1, s, p, <<>>)>> : p \in pos..(Len(s) + 1)}
      good  == {t \in tries : t[2].ok}
  IN  IF good = {} THEN NoMatch
      ELSE (CHOOSE t \in good : \A u \in good : t[1] <= u[1])[2]

\* re.search(pattern, s): the first position of s where the pattern matches.
re_search(re, ic, s) == SearchFrom(re, ic, s, 1)

\* match.group(g)
group(m, s, g) == SubSeq(s, m.caps[g][1], m.caps[g][2] - 1)

-----------------------------------------------------------------------------
(* show cdp neighbors: CiscoIosShowCdpNeghborsParser                       *)

\* The input lines the model feeds to parse, with their characters.
CdpChars ==
  "Device ID        Local Intrfce     Holdtme    Capability  Platform  Port ID" :> <<"D", "e",
     "v", "i", "c", "e", " ", "I", "D", " ", " ", " ", " ", " ", " ", " ", " ", "L", "o", "c",
     "a", "l", " ", "I", "n", "t", "r", "f", "c", "e", " ", " ", " ", " ", " ", "H", "o", "l",
     "d", "t", "m", "e", " ", " ", " ", " ", "C", "a", "p", "a", "b", "i", "l", "i", "t", "y",
     " ", " ", "P", "l", "a", "t", "f", "o", "r", "m", " ", " ", "P", "o", "r", "t", " ", "I",
     "D">> @@
  "E-Cat3750X-41Stack" :> <<"E", "-", "C", "a", "t", "3", "7", "5", "0", "X", "-", "4", "1",
     "S", "t", "a", "c", "k">> @@
  "                 Ten 2/4/4         147            R T S I WS-C3750X Ten 2/1/2" :> <<" ",
     " ", " ", " ", " ", " ", " ", " ", " ", " ", " ", " ", " ", " ", " ", " ", " ", "T", "e",
     "n", " ", "2", "/", "4", "/", "4", " ", " ", " ", " ", " ", " ", " ", " ", " ", "1", "4",
     "7", " ", " ", " ", " ", " ", " ", " ", " ", " ", " ", " ", " ", "R", " ", "T", " ", "S",
     " ", "I", " ", "W", "S", "-", "C", "3", "7", "5", "0", "X", " ", "T", "e", "n", " ", "2",
     "/", "1", "/", "2">> @@
  "SW1              Gig 1/0/1         120          R S I       WS-C3750  Gig 0/1" :> <<"S",
     "W", "1", " ", " ", " ", " ", " ", " ", " ", " ", " ", " ", " ", " ", " ", " ", "G", "i",
     "g", " ", "1", "/", "0", "/", "1", " ", " ", " ", " ", " ", " ", " ", " ", " ", "1", "2",
     "0", " ", " ", " ", " ", " ", " ", " ", " ", " ", " ", "R", " ", "S", " ", "I", " ", " ",
     " ", " ", " ", " ", " ", "W", "S", "-", "C", "3", "7", "5", "0", " ", " ", "G", "i", "g",
     " ", "0", "/", "1">> @@
  "switch#show cdp neighbors" :> <<"s", "w", "i", "t", "c", "h", "#", "s", "h", "o", "w", " ",
     "c", "d", "p", " ", "n", "e", "i", "g", "h", "b", "o", "r", "s">> @@
  "" :> <<>> @@
  "   " :> <<" ", " ", " ">>

CdpInputs == DOMAIN CdpChars

start_str == CdpChars["Device ID        Local Intrfce     Holdtme    Capability  Platform  Port ID"]

skipStr == <<"#">>

\* Bound: the number of lines of an input of parse.
MaxCdpLines == 4

\* The shortest line taken as a data row.
CdpRowLen == 68

\* A variant that cuts the device id at column 17 also when it has a line
\* of its own.
make_dict_device_id_cut(lines) ==
  LET line == IF Len(lines) = 1 THEN lines[1] ELSE lines[2]
      d0 == DictSet(EmptyDict, "device_id",
                    strip(Slice(lines[1], 0, 17)))
      d1 == IF Len(line) >= 35 THEN DictSet(d0, "local_interface", strip(Slice(line, 17, 35)))
                               ELSE d0
      d2 == IF Len(line) >= 46 THEN DictSet(d1, "holdtime", strip(Slice(line, 35, 46)))
                               ELSE d1
      d3 == IF Len(line) >= 58 THEN DictSet(d2, "capability", strip(Slice(line, 46, 58)))
                               ELSE d2
      d4 == IF Len(line) >= 68 THEN DictSet(d3, "platform", strip(Slice(line, 58, 68)))
                               ELSE d3
      d5 == IF Len(line) > 68 THEN DictSet(d4, "port_id", strip(SliceFrom(line, 68)))
                              ELSE d4
  IN  d5

\* make_dict_by_neighbor_lists(lines)
make_dict_by_neighbor_lists(lines) ==
  LET line == IF Len(lines) = 1 THEN lines[1] ELSE lines[2]
      d0 == DictSet(EmptyDict, "device_id",
                    IF Len(lines) = 1 THEN strip(Slice(lines[1], 0, 17))
                                      ELSE strip(lines[1]))
      d1 == IF Len(line) >= 35 THEN DictSet(d0, "local_interface", strip(Slice(line, 17, 35)))
                               ELSE d0
      d2 == IF Len(line) >= 46 THEN DictSet(d1, "holdtime", strip(Slice(line, 35, 46)))
                               ELSE d1
      d3 == IF Len(line) >= 58 THEN DictSet(d2, "capability", strip(Slice(line, 46, 58)))
                               ELSE d2
      d4 == IF Len(line) >= 68 THEN DictSet(d3, "platform", strip(Slice(line, 58, 68)))
                               ELSE d3
      d5 == IF Len(line) > 68 THEN DictSet(d4, "port_id", strip(SliceFrom(line, 68)))
                              ELSE d4
  IN  d5

\* CdpBranch without the test for skipStr.
CdpBranchNoSkip(line, is_section) ==
  IF line = <<>> THEN "blank"
  ELSE IF find(line, start_str) >= 0 THEN "start"
  ELSE IF is_section = FALSE THEN "outside"
  ELSE IF Len(line) < CdpRowLen THEN "short"
  ELSE IF startswith(line, <<" ">>) THEN "second"
  ELSE "single"

\* The branch of parse's loop body that a line (already rstrip'ped) takes.
CdpBranch(line, is_section) ==
  IF line = <<>> THEN "blank"
  ELSE IF find(line, skipStr) >= 0 THEN "skip"
  ELSE IF find(line, start_str) >= 0 THEN "start"
  ELSE IF is_section = FALSE THEN "outside"
  ELSE IF Len(line) < CdpRowLen THEN "short"
  ELSE IF startswith(line, <<" ">>) THEN "second"
  ELSE "single"

\* An iteration of parse's for loop from its start to its yield, where the
\* generator is suspended and the consumer has the record, or to its end
\* when it does not yield: the state of the generator (its locals n and
\* is_section, out, the yields so far, and pc, "yield" when suspended at
\* the yield and "run" between two iterations) once it has read line raw
\* as its at-th line.  A yield is recorded with the index of the line that
\* caused it, the length of the list make_dict_by_neighbor_lists was called
\* with, and the record returned.
CdpToYield(s, raw, at) ==
  LET line == rstrip(CdpChars[raw])
      b    == CdpBranch(line, s.is_section)
      n2   == Append(s.n, line)
  IN  [is_section |-> CASE b = "skip"  -> FALSE
                        [] b = "start" -> TRUE
                        [] OTHER       -> s.is_section,
       n          |-> IF b \in {"short", "second", "single"} THEN n2 ELSE s.n,
       out        |-> IF b \in {"second", "single"}
                      THEN Append(s.out, [at    |-> at,
                                          lists |-> Len(n2),
                                          d     |-> make_dict_by_neighbor_lists(n2)])
                      ELSE s.out,
       pc         |-> IF b \in {"second", "single"} THEN "yield" ELSE "run"]

\* The rest of the iteration once the consumer asks for the next record:
\* n = [] after either yield.
CdpResume(s) ==
  IF s.pc = "yield" THEN [s EXCEPT !.n = <<>>, !.pc = "run"] ELSE s

\* One whole iteration of parse's for loop, as a consumer that takes every
\* record runs it.
CdpStep(s, raw, at) == CdpResume(CdpToYield(s, raw, at))

\* The locals of parse before its loop.
CdpStart == [is_section |-> FALSE, n |-> <<>>, out |-> <<>>, pc |-> "run"]

\* list(parse(lines)): the records parse yields for a whole input.
RECURSIVE CdpRun(_, _, _)
CdpRun(s, lines, i) ==
  IF i > Len(lines) THEN s ELSE CdpRun(CdpStep(s, lines[i], i), lines, i + 1)

cdp_parse(lines) ==
  LET out == CdpRun(CdpStart, lines, 1).out
  IN  [i \in 1..Len(out) |-> out[i].d]

CdpInit ==
  /\ cdp_lines = <<>>
  /\ cdp_n = CdpStart.n
  /\ cdp_is_section = CdpStart.is_section
  /\ cdp_out = CdpStart.out
  /\ cdp_pc = "run"

\* The state of the generator held by the variables.
CdpFrame == [is_section |-> cdp_is_section, n |-> cdp_n, out |-> cdp_out, pc |-> cdp_pc]

\* parse reads the next line of its input and runs to the yield of that
\* iteration, or to its end.
CdpParseLine(raw) ==
  LET s == CdpToYield(CdpFrame, raw, Len(cdp_lines) + 1)
  IN  /\ cdp_pc = "run"
      /\ Len(cdp_lines) < MaxCdpLines
      /\ cdp_lines' = Append(cdp_lines, raw)
      /\ cdp_is_section' = s.is_section
      /\ cdp_n' = s.n
      /\ cdp_out' = s.out
      /\ cdp_pc' = s.pc
      /\ UNCHANGED <<if_vars, st_vars, rt_vars, flt_vars, main_vars, gen_vars, call_vars>>

\* The consumer asks for the next record: parse goes on after its yield.
CdpAfterYield ==
  /\ cdp_pc = "yield"
  /\ cdp_n' = CdpResume(CdpFrame).n
  /\ cdp_pc' = CdpResume(CdpFrame).pc
  /\ UNCHANGED <<cdp_lines, cdp_is_section, cdp_out>>
  /\ UNCHANGED <<if_vars, st_vars, rt_vars, flt_vars, main_vars, gen_vars, call_vars>>

\* The for loop runs out of lines: the generator ends.
CdpEnd ==
  /\ cdp_pc = "run"
  /\ cdp_pc' = "done"
  /\ UNCHANGED <<cdp_lines, cdp_n, cdp_is_section, cdp_out>>
  /\ UNCHANGED <<if_vars, st_vars, rt_vars, flt_vars, main_vars, gen_vars, call_vars>>

CdpNext ==
  \/ \E raw \in CdpInputs : CdpParseLine(raw)
  \/ CdpAfterYield
  \/ CdpEnd

-----------------------------------------------------------------------------
(* Claims about show cdp neighbors, checked under SpecCdp.                 *)

\* C1 (as claimed): every neighbor record is built from exactly one line or
\* exactly two lines: whenever parse calls make_dict_by_neighbor_lists the
\* pending list has length 1 or 2.
C1_PendingOneOrTwo ==
  \A i \in 1..Len(cdp_out) : cdp_out[i].lists \in {1, 2}

CdpHasHeader(raw) == find(CdpChars[raw], start_str) >= 0

CdpHasHash(raw) == find(CdpChars[raw], skipStr) >= 0

\* C2: parse yields records only while in the neighbor section: every record
\* is yielded for a line that comes after a line containing the header, with
\* no line containing '#' from that header line up to the yielding line.
C2_YieldOnlyInSection ==
  \A i \in 1..Len(cdp_out) :
    \E j \in 1..(cdp_out[i].at - 1) :
      /\ CdpHasHeader(cdp_lines[j])
      /\ \A k \in j..(cdp_out[i].at - 1) : ~CdpHasHash(cdp_lines[k])

\* C2 witness: a record was yielded after a '#' line ended the section and a
\* later header line opened it again.
C2_Witness ==
  \E i \in 1..Len(cdp_out) :
    \E k \in 1..Len(cdp_lines) : \E j \in 1..Len(cdp_lines) :
      /\ k < j /\ j < cdp_out[i].at
      /\ CdpHasHash(cdp_lines[k])
      /\ CdpHasHeader(cdp_lines[j])

-----------------------------------------------------------------------------
(* show interfaces: CiscoIosShowInterfacesParser                           *)

\* The input lines the model feeds to parse, with their characters.  parse
\* does not strip its lines: one of them ends with the line break that
\* readlines() leaves.
IfChars ==
  "Gi1 is up, line protocol is up\n" :>
     <<"G", "i", "1", " ", "i", "s", " ", "u", "p", ",", " ", "l", "i", "n", "e", " ", "p",
     "r", "o", "t", "o", "c", "o", "l", " ", "i", "s", " ", "u", "p", "\n">> @@
  "Gi1 is up, line protocol is up" :> <<"G", "i", "1", " ", "i", "s", " ", "u", "p", ",", " ",
     "l", "i", "n", "e", " ", "p", "r", "o", "t", "o", "c", "o", "l", " ", "i", "s", " ", "u",
     "p">> @@
  "Te2 is administratively down, line protocol is down (disabled)" :> <<"T", "e", "2", " ",
     "i", "s", " ", "a", "d", "m", "i", "n", "i", "s", "t", "r", "a", "t", "i", "v", "e", "l",
     "y", " ", "d", "o", "w", "n", ",", " ", "l", "i", "n", "e", " ", "p", "r", "o", "t", "o",
     "c", "o", "l", " ", "i", "s", " ", "d", "o", "w", "n", " ", "(", "d", "i", "s", "a", "b",
     "l", "e", "d", ")">> @@
  "  Description: uplink" :> <<" ", " ", "D", "e", "s", "c", "r", "i", "p", "t", "i", "o", "n",
     ":", " ", "u", "p", "l", "i", "n", "k">> @@
  "  Full-duplex, 1000Mb/s, media type is 1000BaseLH" :> <<" ", " ", "F", "u", "l", "l", "-",
     "d", "u", "p", "l", "e", "x", ",", " ", "1", "0", "0", "0", "M", "b", "/", "s", ",", " ",
     "m", "e", "d", "i", "a", " ", "t", "y", "p", "e", " ", "i", "s", " ", "1", "0", "0", "0",
     "B", "a", "s", "e", "L", "H">> @@
  "  Input queue: 0/20/0/0 (size/max/drops/flushes); Total output drops: 7" :> <<" ", " ", "I",
     "n", "p", "u", "t", " ", "q", "u", "e", "u", "e", ":", " ", "0", "/", "2", "0", "/", "0",
     "/", "0", " ", "(", "s", "i", "z", "e", "/", "m", "a", "x", "/", "d", "r", "o", "p", "s",
     "/", "f", "l", "u", "s", "h", "e", "s", ")", ";", " ", "T", "o", "t", "a", "l", " ", "o",
     "u", "t", "p", "u", "t", " ", "d", "r", "o", "p", "s", ":", " ", "7">> @@
  "  5 minute input rate 10 bits/sec, 2 packets/sec" :> <<" ", " ", "5", " ", "m", "i", "n",
     "u", "t", "e", " ", "i", "n", "p", "u", "t", " ", "r", "a", "t", "e", " ", "1", "0", " ",
     "b", "i", "t", "s", "/", "s", "e", "c", ",", " ", "2", " ", "p", "a", "c", "k", "e", "t",
     "s", "/", "s", "e", "c">> @@
  "  5 minute output rate 30 bits/sec, 4 packets/sec" :> <<" ", " ", "5", " ", "m", "i", "n",
     "u", "t", "e", " ", "o", "u", "t", "p", "u", "t", " ", "r", "a", "t", "e", " ", "3", "0",
     " ", "b", "i", "t", "s", "/", "s", "e", "c", ",", " ", "4", " ", "p", "a", "c", "k", "e",
     "t", "s", "/", "s", "e", "c">> @@
  "     15 packets input, 394 bytes, 0 no buffer" :> <<" ", " ", " ", " ", " ", "1", "5", " ",
     "p", "a", "c", "k", "e", "t", "s", " ", "i", "n", "p", "u", "t", ",", " ", "3", "9", "4",
     " ", "b", "y", "t", "e", "s", ",", " ", "0", " ", "n", "o", " ", "b", "u", "f", "f", "e",
     "r">> @@
  "     0 input errors, 1 CRC, 0 frame, 0 overrun, 0 ignored" :> <<" ", " ", " ", " ", " ",
     "0", " ", "i", "n", "p", "u", "t", " ", "e", "r", "r", "o", "r", "s", ",", " ", "1", " ",
     "C", "R", "C", ",", " ", "0", " ", "f", "r", "a", "m", "e", ",", " ", "0", " ", "o", "v",
     "e", "r", "r", "u", "n", ",", " ", "0", " ", "i", "g", "n", "o", "r", "e", "d">> @@
  "     21 packets output, 1707 bytes, 0 underruns" :> <<" ", " ", " ", " ", " ", "2", "1",
     " ", "p", "a", "c", "k", "e", "t", "s", " ", "o", "u", "t", "p", "u", "t", ",", " ", "1",
     "7", "0", "7", " ", "b", "y", "t", "e", "s", ",", " ", "0", " ", "u", "n", "d", "e", "r",
     "r", "u", "n", "s">> @@
  "     3 output errors, 0 collisions, 0 interface resets" :> <<" ", " ", " ", " ", " ", "3",
     " ", "o", "u", "t", "p", "u", "t", " ", "e", "r", "r", "o", "r", "s", ",", " ", "0", " ",
     "c", "o", "l", "l", "i", "s", "i", "o", "n", "s", ",", " ", "0", " ", "i", "n", "t", "e",
     "r", "f", "a", "c", "e", " ", "r", "e", "s", "e", "t", "s">> @@
  "sw#" :> <<"s", "w", "#">> @@
  "" :> <<>>

IfInputs == DOMAIN IfChars

\* Bound: the number of lines of an input of parse.
MaxIfLines == 3

\* r"^(\S+) is .*, line protocol is .*$"
re_start ==
  <<Open("1"), Rep("S", 1, -1), Close("1"), Lit(<<" ", "i", "s", " ">>), Rep("any", 0, -1),
    Lit(<<",", " ", "l", "i", "n", "e", " ", "p", "r", "o", "t", "o", "c", "o", "l", " ", "i",
          "s", " ">>), Rep("any", 0, -1), Eol>>

\* r"^(\S+)"
re_end ==
  <<Open("1"), Rep("S", 1, -1), Close("1")>>

\* r"^(\S+) is .*, line protocol is .*$"
tok_name ==
  <<Open("1"), Rep("S", 1, -1), Close("1"), Lit(<<" ", "i", "s", " ">>), Rep("any", 0, -1),
    Lit(<<",", " ", "l", "i", "n", "e", " ", "p", "r", "o", "t", "o", "c", "o", "l", " ", "i",
          "s", " ">>), Rep("any", 0, -1), Eol>>

\* r"^\S+ is (.*), line protocol is .*$"
tok_status ==
  <<Rep("S", 1, -1), Lit(<<" ", "i", "s", " ">>), Open("1"), Rep("any", 0, -1), Close("1"),
    Lit(<<",", " ", "l", "i", "n", "e", " ", "p", "r", "o", "t", "o", "c", "o", "l", " ", "i",
          "s", " ">>), Rep("any", 0, -1), Eol>>

\* r"^\S+ is .*, line protocol is (.*)$"
tok_line_protocol ==
  <<Rep("S", 1, -1), Lit(<<" ", "i", "s", " ">>), Rep("any", 0, -1),
    Lit(<<",", " ", "l", "i", "n", "e", " ", "p", "r", "o", "t", "o", "c", "o", "l", " ", "i",
          "s", " ">>), Open("1"), Rep("any", 0, -1), Close("1"), Eol>>

\* r"^\s+Description: (.*)$"
tok_Description ==
  <<Rep("s", 1, -1), Lit(<<"D", "e", "s", "c", "r", "i", "p", "t", "i", "o", "n", ":", " ">>),
    Open("1"), Rep("any", 0, -1), Close("1"), Eol>>

\* r"^\s+(.*), .*, media type is .*$"
tok_duplex ==
  <<Rep("s", 1, -1), Open("1"), Rep("any", 0, -1), Close("1"), Lit(<<",", " ">>),
    Rep("any", 0, -1),
    Lit(<<",", " ", "m", "e", "d", "i", "a", " ", "t", "y", "p", "e", " ", "i", "s", " ">>),
    Rep("any", 0, -1), Eol>>

\* r"^\s+\S+, (.*)b/s, media type is .*$"
tok_speed ==
  <<Rep("s", 1, -1), Rep("S", 1, -1), Lit(<<",", " ">>), Open("1"), Rep("any", 0, -1),
    Close("1"),
    Lit(<<"b", "/", "s", ",", " ", "m", "e", "d", "i", "a", " ", "t", "y", "p", "e", " ", "i",
          "s", " ">>), Rep("any", 0, -1), Eol>>

\* r"^\s+\S+, .*, media type is (.*)$"
tok_media ==
  <<Rep("s", 1, -1), Rep("S", 1, -1), Lit(<<",", " ">>), Rep("any", 0, -1),
    Lit(<<",", " ", "m", "e", "d", "i", "a", " ", "t", "y", "p", "e", " ", "i", "s", " ">>),
    Open("1"), Rep("any", 0, -1), Close("1"), Eol>>

\* r"^\s+.* Total output drops: (\d+)"
tok_output_drops ==
  <<Rep("s", 1, -1), Rep("any", 0, -1),
    Lit(<<" ", "T", "o", "t", "a", "l", " ", "o", "u", "t", "p", "u", "t", " ", "d", "r", "o",
          "p", "s", ":", " ">>), Open("1"), Rep("d", 1, -1), Close("1")>>

\* r"^\s+5 minute input rate (\d+) bits/sec.*$"
tok_5_minute_input_bps ==
  <<Rep("s", 1, -1),
    Lit(<<"5", " ", "m", "i", "n", "u", "t", "e", " ", "i", "n", "p", "u", "t", " ", "r", "a",
          "t", "e", " ">>), Open("1"), Rep("d", 1, -1), Close("1"),
    Lit(<<" ", "b", "i", "t", "s", "/", "s", "e", "c">>), Rep("any", 0, -1), Eol>>

\* r"^\s+5 minute input rate .* bits/sec, (\d+) packets/sec$"
tok_5_minute_input_pps ==
  <<Rep("s", 1, -1),
    Lit(<<"5", " ", "m", "i", "n", "u", "t", "e", " ", "i", "n", "p", "u", "t", " ", "r", "a",
          "t", "e", " ">>), Rep("any", 0, -1),
    Lit(<<" ", "b", "i", "t", "s", "/", "s", "e", "c", ",", " ">>), Open("1"), Rep("d", 1, -1),
    Close("1"), Lit(<<" ", "p", "a", "c", "k", "e", "t", "s", "/", "s", "e", "c">>), Eol>>

\* r"^\s+5 minute output rate (\d+) bits/sec.*$"
tok_5_minute_output_bps ==
  <<Rep("s", 1, -1),
    Lit(<<"5", " ", "m", "i", "n", "u", "t", "e", " ", "o", "u", "t", "p", "u", "t", " ", "r",
          "a", "t", "e", " ">>), Open("1"), Rep("d", 1, -1), Close("1"),
    Lit(<<" ", "b", "i", "t", "s", "/", "s", "e", "c">>), Rep("any", 0, -1), Eol>>

\* r"^\s+5 minute output rate .* bits/sec, (\d+) packets/sec$"
tok_5_minute_output_pps ==
  <<Rep("s", 1, -1),
    Lit(<<"5", " ", "m", "i", "n", "u", "t", "e", " ", "o", "u", "t", "p", "u", "t", " ", "r",
          "a", "t", "e", " ">>), Rep("any", 0, -1),
    Lit(<<" ", "b", "i", "t", "s", "/", "s", "e", "c", ",", " ">>), Open("1"), Rep("d", 1, -1),
    Close("1"), Lit(<<" ", "p", "a", "c", "k", "e", "t", "s", "/", "s", "e", "c">>), Eol>>

\* r"^\s+(\d+) packets input, .*$"
tok_input_packets ==
  <<Rep("s", 1, -1), Open("1"), Rep("d", 1, -1), Close("1"),
    Lit(<<" ", "p", "a", "c", "k", "e", "t", "s", " ", "i", "n", "p", "u", "t", ",", " ">>),
    Rep("any", 0, -1), Eol>>

\* r"^\s+\d+ packets input, (\d+) bytes, .*$"
tok_input_bytes ==
  <<Rep("s", 1, -1), Rep("d", 1, -1),
    Lit(<<" ", "p", "a", "c", "k", "e", "t", "s", " ", "i", "n", "p", "u", "t", ",", " ">>),
    Open("1"), Rep("d", 1, -1), Close("1"), Lit(<<" ", "b", "y", "t", "e", "s", ",", " ">>),
    Rep("any", 0, -1), Eol>>

\* r"^\s+(\d+) input errors, \d+ CRC, \d+ frame, \d+ overrun, \d+ ignored$"
tok_input_errors ==
  <<Rep("s", 1, -1), Open("1"), Rep("d", 1, -1), Close("1"),
    Lit(<<" ", "i", "n", "p", "u", "t", " ", "e", "r", "r", "o", "r", "s", ",", " ">>),
    Rep("d", 1, -1), Lit(<<" ", "C", "R", "C", ",", " ">>), Rep("d", 1, -1),
    Lit(<<" ", "f", "r", "a", "m", "e", ",", " ">>), Rep("d", 1, -1),
    Lit(<<" ", "o", "v", "e", "r", "r", "u", "n", ",", " ">>), Rep("d", 1, -1),
    Lit(<<" ", "i", "g", "n", "o", "r", "e", "d">>), Eol>>

\* r"^\s+\d+ input errors, (\d+) CRC, \d+ frame, \d+ overrun, \d+ ignored$"
tok_crc ==
  <<Rep("s", 1, -1), Rep("d", 1, -1),
    Lit(<<" ", "i", "n", "p", "u", "t", " ", "e", "r", "r", "o", "r", "s", ",", " ">>),
    Open("1"), Rep("d", 1, -1), Close("1"), Lit(<<" ", "C", "R", "C", ",", " ">>),
    Rep("d", 1, -1), Lit(<<" ", "f", "r", "a", "m", "e", ",", " ">>), Rep("d", 1, -1),
    Lit(<<" ", "o", "v", "e", "r", "r", "u", "n", ",", " ">>), Rep("d", 1, -1),
    Lit(<<" ", "i", "g", "n", "o", "r", "e", "d">>), Eol>>

\* r"^\s+(\d+) packets output, .*$"
tok_output_packets ==
  <<Rep("s", 1, -1), Open("1"), Rep("d", 1, -1), Close("1"),
    Lit(<<" ", "p", "a", "c", "k", "e", "t", "s", " ", "o", "u", "t", "p", "u", "t", ",",
          " ">>), Rep("any", 0, -1), Eol>>

\* r"^\s+(\d+) packets output, (\d+) bytes, .*$"
tok_output_bytes ==
  <<Rep("s", 1, -1), Open("1"), Rep("d", 1, -1), Close("1"),
    Lit(<<" ", "p", "a", "c", "k", "e", "t", "s", " ", "o", "u", "t", "p", "u", "t", ",",
          " ">>), Open("2"), Rep("d", 1, -1), Close("2"),
    Lit(<<" ", "b", "y", "t", "e", "s", ",", " ">>), Rep("any", 0, -1), Eol>>

\* r"\s+(\d+) output errors, \d+ collisions, \d+ interface resets$"
tok_output_errors ==
  <<Rep("s", 1, -1), Open("1"), Rep("d", 1, -1), Close("1"),
    Lit(<<" ", "o", "u", "t", "p", "u", "t", " ", "e", "r", "r", "o", "r", "s", ",", " ">>),
    Rep("d", 1, -1), Lit(<<" ", "c", "o", "l", "l", "i", "s", "i", "o", "n", "s", ",", " ">>),
    Rep("d", 1, -1),
    Lit(<<" ", "i", "n", "t", "e", "r", "f", "a", "c", "e", " ", "r", "e", "s", "e", "t",
          "s">>), Eol>>

\* token_dict: the tokens in the order __init__ stores them, each with its pattern.
token_dict ==
  <<<<"name", tok_name>>, <<"status", tok_status>>, <<"line protocol", tok_line_protocol>>,
    <<"Description", tok_Description>>, <<"duplex", tok_duplex>>, <<"speed", tok_speed>>,
    <<"media", tok_media>>, <<"output drops", tok_output_drops>>,
    <<"5 minute input bps", tok_5_minute_input_bps>>,
    <<"5 minute input pps", tok_5_minute_input_pps>>,
    <<"5 minute output bps", tok_5_minute_output_bps>>,
    <<"5 minute output pps", tok_5_minute_output_pps>>,
    <<"input packets", tok_input_packets>>, <<"input bytes", tok_input_bytes>>,
    <<"input errors", tok_input_errors>>, <<"crc", tok_crc>>,
    <<"output packets", tok_output_packets>>, <<"output bytes", tok_output_bytes>>,
    <<"output errors", tok_output_errors>>>>

\* for k,v in self.token_dict.items(): the tokens from the i-th on, each
\* matched against line and stored in d under its key when it matches.
RECURSIVE take_tokens(_, _, _)
take_tokens(d, line, i) ==
  IF i > Len(token_dict) THEN d
  ELSE LET m == re_match(token_dict[i][2], FALSE, line)
       IN  take_tokens(IF m.ok THEN DictSet(d, token_dict[i][1], group(m, line, "1")) ELSE d,
                       line, i + 1)

\* The branch of parse's loop body that a line takes.
IfBranch(line, is_section) ==
  IF ~is_section
  THEN IF re_match(re_start, FALSE, line).ok THEN "first" ELSE "before"
  ELSE IF re_match(re_start, FALSE, line).ok THEN "next"
  ELSE IF re_match(re_end, FALSE, line).ok THEN "end"
  ELSE "detail"

\* An iteration of parse's for loop from its start to its yield, where the
\* generator is suspended and the consumer has the record, or to its end
\* when it does not yield: the state of the generator (its locals
\* is_section and d, out, the yields so far, and pc) once it has read line
\* raw as its at-th line.  pc is "yield_next" at the yield of the branch for
\* the header of the next interface, where d is still the record yielded,
\* "yield_end" at the yield of the branch for the end of a block, and "run"
\* between two iterations.
IfToYield(s, raw, at) ==
  LET line == IfChars[raw]
      b    == IfBranch(line, s.is_section)
  IN  [is_section |-> CASE b = "first" -> TRUE
                        [] b = "end"   -> FALSE
                        [] OTHER       -> s.is_section,
       out        |-> IF b \in {"next", "end"}
                      THEN Append(s.out, [at |-> at, d |-> s.d])
                      ELSE s.out,
       d          |-> CASE b = "first"  -> take_tokens(EmptyDict, line, 1)
                        [] b = "detail" -> take_tokens(s.d, line, 1)
                        [] OTHER        -> s.d,
       pc         |-> CASE b = "next" -> "yield_next"
                        [] b = "end"  -> "yield_end"
                        [] OTHER      -> "run"]

\* A variant of the code after the yield in which the record is not
\* renewed at the header of the next interface: it goes on with the values
\* of the block before.
IfResumeKeepsRecord(s, raw) ==
  CASE s.pc = "yield_next" -> [s EXCEPT !.d = take_tokens(s.d, IfChars[raw], 1), !.pc = "run"]
    [] s.pc = "yield_end"  -> [s EXCEPT !.pc = "run"]
    [] OTHER               -> s

\* The rest of the iteration over line raw once the consumer asks for the
\* next record: after the yield for the next header, a new record with the
\* tokens of that header line; after the yield for the end of a block,
\* nothing.
IfResume(s, raw) ==
  CASE s.pc = "yield_next" -> [s EXCEPT !.d = take_tokens(EmptyDict, IfChars[raw], 1), !.pc = "run"]
    [] s.pc = "yield_end"  -> [s EXCEPT !.pc = "run"]
    [] OTHER               -> s

\* One whole iteration of parse's for loop, as a consumer that takes every
\* record runs it.
IfStep(s, raw, at) == IfResume(IfToYield(s, raw, at), raw)

\* The locals of parse before its loop.
IfStart == [is_section |-> FALSE, d |-> EmptyDict, out |-> <<>>, pc |-> "run"]

\* list(parse(lines)): the records parse yields for a whole input.  Nothing
\* follows the loop, so a record still being filled at the end of the input
\* is not yielded.
RECURSIVE IfRun(_, _, _)
IfRun(s, lines, i) ==
  IF i > Len(lines) THEN s ELSE IfRun(IfStep(s, lines[i], i), lines, i + 1)

if_parse(lines) ==
  LET out == IfRun(IfStart, lines, 1).out
  IN  [i \in 1..Len(out) |-> out[i].d]

IfInit ==
  /\ if_lines = <<>>
  /\ if_is_section = IfStart.is_section
  /\ if_d = IfStart.d
  /\ if_out = IfStart.out
  /\ if_pc = "run"

\* The state of the generator held by the variables.
IfFrame == [is_section |-> if_is_section, d |-> if_d, out |-> if_out, pc |-> if_pc]

\* parse reads the next line of its input and runs to the yield of that
\* iteration, or to its end.
IfParseLine(raw) ==
  LET s == IfToYield(IfFrame, raw, Len(if_lines) + 1)
  IN  /\ if_pc = "run"
      /\ Len(if_lines) < MaxIfLines
      /\ if_lines' = Append(if_lines, raw)
      /\ if_is_section' = s.is_section
      /\ if_d' = s.d
      /\ if_out' = s.out
      /\ if_pc' = s.pc
      /\ UNCHANGED <<cdp_vars, st_vars, rt_vars, flt_vars, main_vars, gen_vars, call_vars>>

\* The consumer asks for the next record: parse goes on after its yield,
\* with the line it was suspended in.
IfAfterYield ==
  /\ if_pc \in {"yield_next", "yield_end"}
  /\ if_d' = IfResume(IfFrame, if_lines[Len(if_lines)]).d
  /\ if_pc' = IfResume(IfFrame, if_lines[Len(if_lines)]).pc
  /\ UNCHANGED <<if_lines, if_is_section, if_out>>
  /\ UNCHANGED <<cdp_vars, st_vars, rt_vars, flt_vars, main_vars, gen_vars, call_vars>>

\* The for loop runs out of lines: the generator ends.
IfEnd ==
  /\ if_pc = "run"
  /\ if_pc' = "done"
  /\ UNCHANGED <<if_lines, if_is_section, if_d, if_out>>
  /\ UNCHANGED <<cdp_vars, st_vars, rt_vars, flt_vars, main_vars, gen_vars, call_vars>>

IfNext ==
  \/ \E raw \in IfInputs : IfParseLine(raw)
  \/ IfAfterYield
  \/ IfEnd

\* The lines of two interface blocks: two header lines, two detail lines
\* and a prompt.
IfBlockInputs ==
  {"Gi1 is up, line protocol is up",
   "Te2 is administratively down, line protocol is down (disabled)",
   "  Description: uplink",
   "  Full-duplex, 1000Mb/s, media type is 1000BaseLH",
   "sw#"}

MaxIfBlockLines == 4

\* parse reads the next line of an input made of the lines of IfBlockInputs.
IfParseBlockLine(raw) ==
  LET s == IfToYield(IfFrame, raw, Len(if_lines) + 1)
  IN  /\ if_pc = "run"
      /\ Len(if_lines) < MaxIfBlockLines
      /\ if_lines' = Append(if_lines, raw)
      /\ if_is_section' = s.is_section
      /\ if_d' = s.d
      /\ if_out' = s.out
      /\ if_pc' = s.pc
      /\ UNCHANGED <<cdp_vars, st_vars, rt_vars, flt_vars, main_vars, gen_vars, call_vars>>

IfBlocksNext ==
  \/ \E raw \in IfBlockInputs : IfParseBlockLine(raw)
  \/ IfAfterYield
  \/ IfEnd

-----------------------------------------------------------------------------
(* Claims about show interfaces, checked under SpecIf and SpecIfBlocks.    *)

IfIsHeader(raw) == re_match(re_start, FALSE, IfChars[raw]).ok

\* The interface names of the header lines of an input, in order.
IfHeaderNames(input) ==
  LET hs == SelectSeq(input, IfIsHeader)
  IN  [i \in 1..Len(hs) |-> group(re_match(re_start, FALSE, IfChars[hs[i]]), IfChars[hs[i]], "1")]

\* C3 (as claimed): parse yields one record per interface: when parse has
\* terminated, the records yielded are, in order, one for each header line
\* read, each with the name of its header line.
C3_OneRecordPerHeader ==
  if_pc = "done" =>
    [i \in 1..Len(if_out) |-> DictGet(if_out[i].d, "name", <<>>)] = IfHeaderNames(if_lines)


\* The tokens a line holds by itself: for each pattern of token_dict that
\* matches the line, its key with the value captured.
IfTokens == [raw \in IfInputs |-> take_tokens(EmptyDict, IfChars[raw], 1)]

\* The header line of the block that the record yielded at line a closes:
\* the last header line before a.
IfBlockHeader(a) ==
  CHOOSE h \in 1..(a - 1) :
    IfIsHeader(if_lines[h]) /\ \A j \in (h + 1)..(a - 1) : ~IfIsHeader(if_lines[j])

\* The lines of the block h..e that hold the token k.
IfBlockLinesWith(h, e, k) == {j \in h..e : DictHas(IfTokens[if_lines[j]], k)}

\* The i-th line read starts with a character that is not white space.
IfNotIndented(i) ==
  LET line == IfChars[if_lines[i]] IN line # <<>> /\ line[1] \notin Whitespace

\* C13: a record yielded by parse belongs to one interface block, the header
\* line h and the lines after it up to the line that closes the block (the
\* next header or a line that is not indented): it holds name, status and
\* line protocol of the header line h and, for each token that a line of
\* the block holds, the value captured there; a token that no line of the
\* block holds is not in the record, whatever the lines outside the block
\* hold.
C13_RecordOfOneBlock ==
  \A o \in 1..Len(if_out) :
    LET a == if_out[o].at
        d == if_out[o].d
        h == IfBlockHeader(a)
    IN  /\ \E j \in 1..(a - 1) : IfIsHeader(if_lines[j])
        /\ IfIsHeader(if_lines[a]) \/ IfNotIndented(a)
        /\ \A j \in (h + 1)..(a - 1) : ~IfNotIndented(j)
        /\ \A k \in {"name", "status", "line protocol"} :
             /\ DictHas(d, k)
             /\ DictGet(d, k, <<>>) = DictGet(IfTokens[if_lines[h]], k, <<"?">>)
        /\ \A i \in 1..Len(d) : \E t \in 1..Len(token_dict) : token_dict[t][1] = d[i][1]
        /\ \A t \in 1..Len(token_dict) :
             LET k  == token_dict[t][1]
                 js == IfBlockLinesWith(h, a - 1, k)
             IN  IF js = {}
                 THEN ~DictHas(d, k)
                 ELSE \E j \in js : DictGet(d, k, <<>>) = DictGet(IfTokens[if_lines[j]], k, <<"?">>)

\* C13 happens: two blocks were read, the first with a Description line and
\* the second without, and the record of the second was yielded.
C13_Witness ==
  /\ Len(if_out) >= 1
  /\ \E o \in 1..Len(if_out) :
       LET a == if_out[o].at
       IN  \E j \in 1..(a - 1) :
             /\ DictHas(IfTokens[if_lines[j]], "Description")
             /\ j < IfBlockHeader(a)
             /\ \E g \in 1..(j - 1) : IfIsHeader(if_lines[g])
             /\ ~DictHas(if_out[o].d, "Description")
-----------------------------------------------------------------------------
(* show interfaces status: CiscoIosShowInterfacesStatusParser              *)

\* The input lines the model feeds to parse, with their characters.
StatusChars ==
  "Port          Name               Status       Vlan       Duplex  Speed Type" :>
     <<"P", "o", "r", "t", " ", " ", " ", " ", " ", " ", " ", " ", " ", " ", "N", "a", "m",
     "e", " ", " ", " ", " ", " ", " ", " ", " ", " ", " ", " ", " ", " ", " ", " ", "S", "t",
     "a", "t", "u", "s", " ", " ", " ", " ", " ", " ", " ", "V", "l", "a", "n", " ", " ", " ",
     " ", " ", " ", " ", "D", "u", "p", "l", "e", "x", " ", " ", "S", "p", "e", "e", "d", " ",
     "T", "y", "p", "e">> @@
  "Te1/1/1                          disabled     1            full   1000 1000BaseLH" :>
     <<"T", "e", "1", "/", "1", "/", "1", " ", " ", " ", " ", " ", " ", " ", " ", " ", " ",
     " ", " ", " ", " ", " ", " ", " ", " ", " ", " ", " ", " ", " ", " ", " ", " ", "d", "i",
     "s", "a", "b", "l", "e", "d", " ", " ", " ", " ", " ", "1", " ", " ", " ", " ", " ", " ",
     " ", " ", " ", " ", " ", " ", "f", "u", "l", "l", " ", " ", " ", "1", "0", "0", "0", " ",
     "1", "0", "0", "0", "B", "a", "s", "e", "L", "H">> @@
  "Te1/1/2       uplink             connected    trunk        full    10G 10Gbase-SR" :>
     <<"T", "e", "1", "/", "1", "/", "2", " ", " ", " ", " ", " ", " ", " ", "u", "p", "l",
     "i", "n", "k", " ", " ", " ", " ", " ", " ", " ", " ", " ", " ", " ", " ", " ", "c", "o",
     "n", "n", "e", "c", "t", "e", "d", " ", " ", " ", " ", "t", "r", "u", "n", "k", " ", " ",
     " ", " ", " ", " ", " ", " ", "f", "u", "l", "l", " ", " ", " ", " ", "1", "0", "G", " ",
     "1", "0", "G", "b", "a", "s", "e", "-", "S", "R">> @@
  "Gi1/0/3                          notconnect   1            auto   auto" :>
     <<"G", "i", "1", "/", "0", "/", "3", " ", " ", " ", " ", " ", " ", " ", " ", " ", " ",
     " ", " ", " ", " ", " ", " ", " ", " ", " ", " ", " ", " ", " ", " ", " ", " ", "n", "o",
     "t", "c", "o", "n", "n", "e", "c", "t", " ", " ", " ", "1", " ", " ", " ", " ", " ", " ",
     " ", " ", " ", " ", " ", " ", "a", "u", "t", "o", " ", " ", " ", "a", "u", "t", "o">> @@
  "sw1#show interfaces status" :>
     <<"s", "w", "1", "#", "s", "h", "o", "w", " ", "i", "n", "t", "e", "r", "f", "a", "c",
     "e", "s", " ", "s", "t", "a", "t", "u", "s">> @@
  "" :>
     <<>> @@
  "Port          Name               Status       Vlan       Duplex  Speed Type  " :>
     <<"P", "o", "r", "t", " ", " ", " ", " ", " ", " ", " ", " ", " ", " ", "N", "a", "m",
     "e", " ", " ", " ", " ", " ", " ", " ", " ", " ", " ", " ", " ", " ", " ", " ", "S", "t",
     "a", "t", "u", "s", " ", " ", " ", " ", " ", " ", " ", "V", "l", "a", "n", " ", " ", " ",
     " ", " ", " ", " ", "D", "u", "p", "l", "e", "x", " ", " ", "S", "p", "e", "e", "d", " ",
     "T", "y", "p", "e", " ", " ">> @@
  " Port          Name               Status       Vlan       Duplex  Speed Type" :>
     <<" ", "P", "o", "r", "t", " ", " ", " ", " ", " ", " ", " ", " ", " ", " ", "N", "a",
     "m", "e", " ", " ", " ", " ", " ", " ", " ", " ", " ", " ", " ", " ", " ", " ", " ", "S",
     "t", "a", "t", "u", "s", " ", " ", " ", " ", " ", " ", " ", "V", "l", "a", "n", " ", " ",
     " ", " ", " ", " ", " ", "D", "u", "p", "l", "e", "x", " ", " ", "S", "p", "e", "e", "d",
     " ", "T", "y", "p", "e">> @@
  "Gi1/0/4                          notconnect   1            auto  auto" :>
     <<"G", "i", "1", "/", "0", "/", "4", " ", " ", " ", " ", " ", " ", " ", " ", " ", " ",
     " ", " ", " ", " ", " ", " ", " ", " ", " ", " ", " ", " ", " ", " ", " ", " ", "n", "o",
     "t", "c", "o", "n", "n", "e", "c", "t", " ", " ", " ", "1", " ", " ", " ", " ", " ", " ",
     " ", " ", " ", " ", " ", " ", "a", "u", "t", "o", " ", " ", "a", "u", "t", "o">>

StatusInputs == DOMAIN StatusChars

\* Bound: the number of lines of an input of parse.
MaxStatusLines == 4

start_string ==
  StatusChars["Port          Name               Status       Vlan       Duplex  Speed Type"]

min_len == 70

\* A variant whose Name column starts one character late.
status_make_dict_name_late(line) ==
  LET d1 == DictSet(EmptyDict, "Port", strip(Slice(line, 0, 14)))
      d2 == DictSet(d1, "Name", strip(Slice(line, 15, 33)))
      d3 == DictSet(d2, "Status", strip(Slice(line, 33, 46)))
      d4 == DictSet(d3, "Vlan", strip(Slice(line, 46, 57)))
      d5 == DictSet(d4, "Duplex", strip(Slice(line, 57, 63)))
      d6 == DictSet(d5, "Speed", strip(Slice(line, 63, 70)))
  IN  IF Len(line) > min_len
      THEN DictSet(d6, "Type", strip(SliceFrom(line, 70)))
      ELSE DictSet(d6, "Type", <<>>)

\* make_dict_by_line(line) of the interfaces status parser
status_make_dict_by_line(line) ==
  LET d1 == DictSet(EmptyDict, "Port", strip(Slice(line, 0, 14)))
      d2 == DictSet(d1, "Name", strip(Slice(line, 14, 33)))
      d3 == DictSet(d2, "Status", strip(Slice(line, 33, 46)))
      d4 == DictSet(d3, "Vlan", strip(Slice(line, 46, 57)))
      d5 == DictSet(d4, "Duplex", strip(Slice(line, 57, 63)))
      d6 == DictSet(d5, "Speed", strip(Slice(line, 63, 70)))
  IN  IF Len(line) > min_len
      THEN DictSet(d6, "Type", strip(SliceFrom(line, 70)))
      ELSE DictSet(d6, "Type", <<>>)

\* A variant of the loop body in which a short line is skipped without
\* ending the section.
StatusBranchShortSkipped(line, is_section) ==
  IF line = start_string THEN "start"
  ELSE IF ~is_section THEN "outside"
  ELSE IF Len(line) < min_len THEN "outside"
  ELSE "row"

\* The branch of parse's loop body that a line (already rstrip'ped) takes.
StatusBranch(line, is_section) ==
  IF line = start_string THEN "start"
  ELSE IF Len(line) < min_len THEN "short"
  ELSE IF ~is_section THEN "outside"
  ELSE "row"

\* One iteration of parse's for loop: the state of the generator after it
\* has read line raw as its at-th line.
StatusStep(s, raw, at) ==
  LET line == rstrip(StatusChars[raw])
      b    == StatusBranch(line, s.is_section)
  IN  [is_section |-> CASE b = "start" -> TRUE
                        [] b = "short" -> FALSE
                        [] OTHER       -> s.is_section,
       out        |-> IF b = "row"
                      THEN Append(s.out, [at |-> at, d |-> status_make_dict_by_line(line)])
                      ELSE s.out]

\* The locals of parse before its loop.
StatusStart == [is_section |-> FALSE, out |-> <<>>]

\* list(parse(lines)): the records parse yields for a whole input.
RECURSIVE StatusRun(_, _, _)
StatusRun(s, lines, i) ==
  IF i > Len(lines) THEN s ELSE StatusRun(StatusStep(s, lines[i], i), lines, i + 1)

status_parse(lines) ==
  LET out == StatusRun(StatusStart, lines, 1).out
  IN  [i \in 1..Len(out) |-> out[i].d]

StatusInit ==
  /\ st_lines = <<>>
  /\ st_is_section = StatusStart.is_section
  /\ st_out = StatusStart.out
  /\ st_pc = "run"

\* parse reads the next line of its input.
StatusParseLine(raw) ==
  LET s == StatusStep([is_section |-> st_is_section, out |-> st_out], raw, Len(st_lines) + 1)
  IN  /\ st_pc = "run"
      /\ Len(st_lines) < MaxStatusLines
      /\ st_lines' = Append(st_lines, raw)
      /\ st_is_section' = s.is_section
      /\ st_out' = s.out
      /\ UNCHANGED <<st_pc, cdp_vars, if_vars, rt_vars, flt_vars, main_vars, gen_vars, call_vars>>

\* The for loop runs out of lines: the generator ends.
StatusEnd ==
  /\ st_pc = "run"
  /\ st_pc' = "done"
  /\ UNCHANGED <<st_lines, st_is_section, st_out>>
  /\ UNCHANGED <<cdp_vars, if_vars, rt_vars, flt_vars, main_vars, gen_vars, call_vars>>

StatusNext ==
  \/ \E raw \in StatusInputs : StatusParseLine(raw)
  \/ StatusEnd


-----------------------------------------------------------------------------
(* Claims about show interfaces status, checked under SpecStatus.          *)

\* The i-th line read, right-stripped.
StatusLineAt(i) == rstrip(StatusChars[st_lines[i]])

\* The i-th line read is the header line.
StatusIsHeader(i) == StatusLineAt(i) = start_string

\* The i-th line read is a row of an open section: it has at least min_len
\* characters, is not the header, and follows a header with no shorter line
\* in between.
StatusIsRow(i) ==
  /\ Len(StatusLineAt(i)) >= min_len
  /\ ~StatusIsHeader(i)
  /\ \E j \in 1..(i - 1) :
       /\ StatusIsHeader(j)
       /\ \A k \in (j + 1)..(i - 1) : Len(StatusLineAt(k)) >= min_len

\* C12: parse yields a record exactly for the lines that are rows of an
\* open section (right-stripped length at least 70, not the header, after a
\* header with no line shorter than 70 in between), one record per such
\* line and in their order, built from that line.
C12_YieldExactlyRows ==
  /\ \A i \in 1..Len(st_lines) :
       StatusIsRow(i) <=> (\E o \in 1..Len(st_out) : st_out[o].at = i)
  /\ \A o \in 1..Len(st_out) :
       /\ st_out[o].d = status_make_dict_by_line(StatusLineAt(st_out[o].at))
       /\ \A q \in 1..(o - 1) : st_out[q].at < st_out[o].at

\* C12 happens: a row was yielded, a short line then ended the section, and
\* a long line after it was not yielded.
C12_Witness ==
  \E i, k, l \in 1..Len(st_lines) :
    /\ i < k /\ k < l
    /\ \E o \in 1..Len(st_out) : st_out[o].at = i
    /\ Len(StatusLineAt(k)) < min_len
    /\ Len(StatusLineAt(l)) >= min_len
    /\ ~StatusIsHeader(l)
    /\ ~(\E o \in 1..Len(st_out) : st_out[o].at = l)
-----------------------------------------------------------------------------
(* show logging: CiscoIosShowLoggingParser                                 *)

\* The input lines the model feeds to parse, with their characters.
LogChars ==
  "Sep  5 22:56:48.497: %LINK-SW1-3-UPDOWN: Interface Te1/3/11, changed state to down" :>
     <<"S", "e", "p", " ", " ", "5", " ", "2", "2", ":", "5", "6", ":", "4", "8", ".", "4",
     "9", "7", ":", " ", "%", "L", "I", "N", "K", "-", "S", "W", "1", "-", "3", "-", "U", "P",
     "D", "O", "W", "N", ":", " ", "I", "n", "t", "e", "r", "f", "a", "c", "e", " ", "T", "e",
     "1", "/", "3", "/", "1", "1", ",", " ", "c", "h", "a", "n", "g", "e", "d", " ", "s", "t",
     "a", "t", "e", " ", "t", "o", " ", "d", "o", "w", "n">> @@
  "Sep  5 22:56:48.485: %EC-5-UNBUNDLE: Interface Te1/3/11 left the port-channel Po111" :>
     <<"S", "e", "p", " ", " ", "5", " ", "2", "2", ":", "5", "6", ":", "4", "8", ".", "4",
     "8", "5", ":", " ", "%", "E", "C", "-", "5", "-", "U", "N", "B", "U", "N", "D", "L", "E",
     ":", " ", "I", "n", "t", "e", "r", "f", "a", "c", "e", " ", "T", "e", "1", "/", "3", "/",
     "1", "1", " ", "l", "e", "f", "t", " ", "t", "h", "e", " ", "p", "o", "r", "t", "-", "c",
     "h", "a", "n", "n", "e", "l", " ", "P", "o", "1", "1", "1">> @@
  "Log Buffer (4096 bytes):" :>
     <<"L", "o", "g", " ", "B", "u", "f", "f", "e", "r", " ", "(", "4", "0", "9", "6", " ",
     "b", "y", "t", "e", "s", ")", ":">> @@
  "" :>
     <<>>

LogInputs == DOMAIN LogChars

\* r"^\S.*: (%.*-\d-.*): .*"
rex_log ==
  <<Rep("S", 1, 1), Rep("any", 0, -1), Lit(<<":", " ">>), Open("1"), Lit(<<"%">>),
    Rep("any", 0, -1), Lit(<<"-">>), Rep("d", 1, 1), Lit(<<"-">>), Rep("any", 0, -1),
    Close("1"), Lit(<<":", " ">>), Rep("any", 0, -1)>>

\* r"^(\S.*): %.*-\d-.*: .*$"
log_date ==
  <<Open("1"), Rep("S", 1, 1), Rep("any", 0, -1), Close("1"), Lit(<<":", " ", "%">>),
    Rep("any", 0, -1), Lit(<<"-">>), Rep("d", 1, 1), Lit(<<"-">>), Rep("any", 0, -1),
    Lit(<<":", " ">>), Rep("any", 0, -1), Eol>>

\* r"^\S.*: %(\S+)-\d-.*: .*$"
log_facility ==
  <<Rep("S", 1, 1), Rep("any", 0, -1), Lit(<<":", " ", "%">>), Open("1"), Rep("S", 1, -1),
    Close("1"), Lit(<<"-">>), Rep("d", 1, 1), Lit(<<"-">>), Rep("any", 0, -1),
    Lit(<<":", " ">>), Rep("any", 0, -1), Eol>>

\* r"^\S.*: %.*-(\d)-.*: .*$"
log_severity ==
  <<Rep("S", 1, 1), Rep("any", 0, -1), Lit(<<":", " ", "%">>), Rep("any", 0, -1), Lit(<<"-">>),
    Open("1"), Rep("d", 1, 1), Close("1"), Lit(<<"-">>), Rep("any", 0, -1), Lit(<<":", " ">>),
    Rep("any", 0, -1), Eol>>

\* r"^\S.*: %.*-\d-(\S+): .*$"
log_mnemonic ==
  <<Rep("S", 1, 1), Rep("any", 0, -1), Lit(<<":", " ", "%">>), Rep("any", 0, -1), Lit(<<"-">>),
    Rep("d", 1, 1), Lit(<<"-">>), Open("1"), Rep("S", 1, -1), Close("1"), Lit(<<":", " ">>),
    Rep("any", 0, -1), Eol>>

\* r"^\S.*: %.*-\d-.*: (.*)$"
log_description ==
  <<Rep("S", 1, 1), Rep("any", 0, -1), Lit(<<":", " ", "%">>), Rep("any", 0, -1), Lit(<<"-">>),
    Rep("d", 1, 1), Lit(<<"-">>), Rep("any", 0, -1), Lit(<<":", " ">>), Open("1"),
    Rep("any", 0, -1), Close("1"), Eol>>

\* token_dict of the logging parser: the tokens in the order __init__ stores them.
log_token_dict ==
  <<<<"date", log_date>>, <<"facility", log_facility>>, <<"severity", log_severity>>,
    <<"mnemonic", log_mnemonic>>, <<"description", log_description>>>>

\* make_dict_by_line(line) of the logging parser: the tokens from the i-th
\* on, each matched against line and stored under its key when it matches.
RECURSIVE log_take_tokens(_, _, _)
log_take_tokens(d, line, i) ==
  IF i > Len(log_token_dict) THEN d
  ELSE LET m == re_match(log_token_dict[i][2], FALSE, line)
       IN  log_take_tokens(IF m.ok THEN DictSet(d, log_token_dict[i][1], group(m, line, "1"))
                                   ELSE d,
                           line, i + 1)

log_make_dict_by_line(line) == log_take_tokens(EmptyDict, line, 1)

\* list(parse(lines)) of the logging parser: one record for each line, from
\* the i-th on, that has the format of a log message.
RECURSIVE LogRun(_, _)
LogRun(lines, i) ==
  IF i > Len(lines) THEN <<>>
  ELSE LET line == rstrip(LogChars[lines[i]])
       IN  IF re_match(rex_log, FALSE, line).ok
           THEN <<log_make_dict_by_line(line)>> \o LogRun(lines, i + 1)
           ELSE LogRun(lines, i + 1)

log_parse(lines) == LogRun(lines, 1)

-----------------------------------------------------------------------------
(* show ip route: IPv4RouteEntry and CiscoIosShowIpRouteParser             *)

\* The input lines the model feeds to parse_lines, with their characters.
\* The first octet of every prefix is below 128, so that addr32 fits TLC's
\* integers.
RouteChars ==
  "      10.0.0.0/16 is subnetted, 2 subnets" :>
     <<" ", " ", " ", " ", " ", " ", "1", "0", ".", "0", ".", "0", ".", "0", "/", "1", "6",
     " ", "i", "s", " ", "s", "u", "b", "n", "e", "t", "t", "e", "d", ",", " ", "2", " ", "s",
     "u", "b", "n", "e", "t", "s">> @@
  "      110.0.0.0/8 is variably subnetted, 7 subnets, 2 masks" :>
     <<" ", " ", " ", " ", " ", " ", "1", "1", "0", ".", "0", ".", "0", ".", "0", "/", "8",
     " ", "i", "s", " ", "v", "a", "r", "i", "a", "b", "l", "y", " ", "s", "u", "b", "n", "e",
     "t", "t", "e", "d", ",", " ", "7", " ", "s", "u", "b", "n", "e", "t", "s", ",", " ", "2",
     " ", "m", "a", "s", "k", "s">> @@
  "S        110.0.0.0/8 is directly connected, Null0" :>
     <<"S", " ", " ", " ", " ", " ", " ", " ", " ", "1", "1", "0", ".", "0", ".", "0", ".",
     "0", "/", "8", " ", "i", "s", " ", "d", "i", "r", "e", "c", "t", "l", "y", " ", "c", "o",
     "n", "n", "e", "c", "t", "e", "d", ",", " ", "N", "u", "l", "l", "0">> @@
  "O        10.244.0.0/24 [110/2] via 10.245.11.2, 7w0d, Vlan111" :>
     <<"O", " ", " ", " ", " ", " ", " ", " ", " ", "1", "0", ".", "2", "4", "4", ".", "0",
     ".", "0", "/", "2", "4", " ", "[", "1", "1", "0", "/", "2", "]", " ", "v", "i", "a", " ",
     "1", "0", ".", "2", "4", "5", ".", "1", "1", ".", "2", ",", " ", "7", "w", "0", "d", ",",
     " ", "V", "l", "a", "n", "1", "1", "1">> @@
  "O E1     100.3.0.0 [110/122] via 10.245.2.2, 7w0d, Vlan102" :>
     <<"O", " ", "E", "1", " ", " ", " ", " ", " ", "1", "0", "0", ".", "3", ".", "0", ".",
     "0", " ", "[", "1", "1", "0", "/", "1", "2", "2", "]", " ", "v", "i", "a", " ", "1", "0",
     ".", "2", "4", "5", ".", "2", ".", "2", ",", " ", "7", "w", "0", "d", ",", " ", "V", "l",
     "a", "n", "1", "0", "2">> @@
  "                  [110/2] via 10.245.12.2, 7w0d, Vlan12" :>
     <<" ", " ", " ", " ", " ", " ", " ", " ", " ", " ", " ", " ", " ", " ", " ", " ", " ",
     " ", "[", "1", "1", "0", "/", "2", "]", " ", "v", "i", "a", " ", "1", "0", ".", "2", "4",
     "5", ".", "1", "2", ".", "2", ",", " ", "7", "w", "0", "d", ",", " ", "V", "l", "a", "n",
     "1", "2">> @@
  "Gateway of last resort is not set" :>
     <<"G", "a", "t", "e", "w", "a", "y", " ", "o", "f", " ", "l", "a", "s", "t", " ", "r",
     "e", "s", "o", "r", "t", " ", "i", "s", " ", "n", "o", "t", " ", "s", "e", "t">> @@
  "S        10.9.0.0/16 is directly connected, 10.0.0.0/8 is subnetted" :>
     <<"S", " ", " ", " ", " ", " ", " ", " ", " ", "1", "0", ".", "9", ".", "0", ".", "0",
     "/", "1", "6", " ", "i", "s", " ", "d", "i", "r", "e", "c", "t", "l", "y", " ", "c", "o",
     "n", "n", "e", "c", "t", "e", "d", ",", " ", "1", "0", ".", "0", ".", "0", ".", "0", "/",
     "8", " ", "i", "s", " ", "s", "u", "b", "n", "e", "t", "t", "e", "d">>

RouteInputs == DOMAIN RouteChars

\* Bound: the number of lines of an input of parse_lines.
MaxRouteLines == 3

\* An exception leaves the call.
Raise(exc) == [t |-> "raised", exc |-> exc]

\* IPv4RouteEntry.__init__: the attributes of the object constructed, or
\* the exception raised.  The attribute mask is set only when the argument
\* is a str.  addr32 is int(cols[0])*256*256*256 + int(cols[1])*256*256
\* + int(cols[2] * 256) + int(cols[3]), where cols[2] * 256 repeats the
\* string: that term may have hundreds of digits, so addr32 is kept as
\* rep, the decimal digits of int(cols[2] * 256), and rest, the sum of the
\* other three terms.
IPv4RouteEntry(proto, addr, mask, gw, interface) ==
  IF mask.t = "str" /\ ~IsNumeral(mask.s) THEN Raise("ValueError")
  ELSE IF addr.t # "str" THEN Raise("AttributeError")
  ELSE Bind(split(addr.s, "."), LAMBDA cols :
       Bind(IF Len(cols) >= 3 THEN Repeat(cols[3], 256) ELSE <<>>, LAMBDA col3 :
       LET bad == {i \in 1..4 :
                     \/ i > Len(cols)
                     \/ ~IsNumeral(IF i = 3 THEN col3 ELSE cols[i])}
       IN  IF bad # {}
           THEN IF (CHOOSE i \in bad : \A j \in bad : i <= j) > Len(cols)
                THEN Raise("IndexError") ELSE Raise("ValueError")
           ELSE LET addr32 == [rep  |-> Numeral(col3),
                               rest |-> int(cols[1]) * 256 * 256 * 256
                                        + int(cols[2]) * 256 * 256 + int(cols[4])]
                    attrs  == [t |-> "IPv4RouteEntry", proto |-> proto, addr |-> addr,
                               gw |-> gw, interface |-> interface, addr32 |-> addr32]
                IN  IF mask.t = "str"
                    THEN [t |-> "IPv4RouteEntry", proto |-> proto, addr |-> addr,
                          mask |-> PyInt(int(mask.s)), gw |-> gw, interface |-> interface,
                          addr32 |-> addr32]
                    ELSE attrs))

\* hasattr(e, "mask")
HasMask(e) == "mask" \in DOMAIN e

\* x < y for two values of addr32.  A value is kept as rest + int(rep), rep
\* being the digits of int(cols[2] * 256), the third column written 256
\* times over: "0", or a number of more than 250 digits.  Two different rep
\* differ by more than any rest, so the rep decide unless they are equal.
addr32_less(x, y) ==
  IF x.rep = y.rep THEN x.rest < y.rest
  ELSE IF Len(x.rep) # Len(y.rep) THEN Len(x.rep) < Len(y.rep)
  ELSE LET i == CHOOSE k \in 1..Len(x.rep) :
                  x.rep[k] # y.rep[k] /\ \A j \in 1..(k - 1) : x.rep[j] = y.rep[j]
       IN  DigitValue(x.rep[i]) < DigitValue(y.rep[i])

\* self < other, self > other, self <= other, self >= other: __lt__, __gt__,
\* __le__ and __ge__ of IPv4RouteEntry compare addr32.
IPv4RouteEntry_compare(op, self, other) ==
  CASE op = "lt" -> addr32_less(self.addr32, other.addr32)
    [] op = "gt" -> addr32_less(other.addr32, self.addr32)
    [] op = "le" -> ~addr32_less(other.addr32, self.addr32)
    [] op = "ge" -> ~addr32_less(self.addr32, other.addr32)

\* r"(?P<addr>(?:\d{1,3}\.){3}\d{1,3})/(?P<mask>\d{1,2}) is subnetted"
re_fixed_mask ==
  <<Open("addr"), Rep("d", 1, 3), Lit(<<".">>), Rep("d", 1, 3), Lit(<<".">>), Rep("d", 1, 3),
    Lit(<<".">>), Rep("d", 1, 3), Close("addr"), Lit(<<"/">>), Open("mask"), Rep("d", 1, 2),
    Close("mask"), Lit(<<" ", "i", "s", " ", "s", "u", "b", "n", "e", "t", "t", "e", "d">>)>>

\* r"(?P<addr>(?:\d{1,3}\.){3}\d{1,3})/(?P<mask>\d{1,2}) is variably subnetted"
re_variable_mask ==
  <<Open("addr"), Rep("d", 1, 3), Lit(<<".">>), Rep("d", 1, 3), Lit(<<".">>), Rep("d", 1, 3),
    Lit(<<".">>), Rep("d", 1, 3), Close("addr"), Lit(<<"/">>), Open("mask"), Rep("d", 1, 2),
    Close("mask"),
    Lit(<<" ", "i", "s", " ", "v", "a", "r", "i", "a", "b", "l", "y", " ", "s", "u", "b", "n",
          "e", "t", "t", "e", "d">>)>>

\* r"(?P<proto>.*) (?P<addr>(?:\d{1,3}\.){3}\d{1,3})/(?P<mask>\d{1,2}) is directly connected,(?P<interface>.*)"
re_directly_connected ==
  <<Open("proto"), Rep("any", 0, -1), Close("proto"), Lit(<<" ">>), Open("addr"),
    Rep("d", 1, 3), Lit(<<".">>), Rep("d", 1, 3), Lit(<<".">>), Rep("d", 1, 3), Lit(<<".">>),
    Rep("d", 1, 3), Close("addr"), Lit(<<"/">>), Open("mask"), Rep("d", 1, 2), Close("mask"),
    Lit(<<" ", "i", "s", " ", "d", "i", "r", "e", "c", "t", "l", "y", " ", "c", "o", "n", "n",
          "e", "c", "t", "e", "d", ",">>), Open("interface"), Rep("any", 0, -1),
    Close("interface")>>

\* r"(?P<proto>.*) (?P<addr>(?:\d{1,3}\.){3}\d{1,3}) \[\d+/\d+] via (?P<gw>(?:\d{1,3}\.){3}\d{1,3}),.*,(?P<interface>.*)"
re_ipv4_fixed_prefix ==
  <<Open("proto"), Rep("any", 0, -1), Close("proto"), Lit(<<" ">>), Open("addr"),
    Rep("d", 1, 3), Lit(<<".">>), Rep("d", 1, 3), Lit(<<".">>), Rep("d", 1, 3), Lit(<<".">>),
    Rep("d", 1, 3), Close("addr"), Lit(<<" ", "[">>), Rep("d", 1, -1), Lit(<<"/">>),
    Rep("d", 1, -1), Lit(<<"]", " ", "v", "i", "a", " ">>), Open("gw"), Rep("d", 1, 3),
    Lit(<<".">>), Rep("d", 1, 3), Lit(<<".">>), Rep("d", 1, 3), Lit(<<".">>), Rep("d", 1, 3),
    Close("gw"), Lit(<<",">>), Rep("any", 0, -1), Lit(<<",">>), Open("interface"),
    Rep("any", 0, -1), Close("interface")>>

\* r"(?P<proto>.*) (?P<addr>(?:\d{1,3}\.){3}\d{1,3})/(?P<mask>\d{1,2}) \[\d+/\d+\] via (?P<gw>(?:\d{1,3}\.){3}\d{1,3}),.*,(?P<interface>.*)"
re_ipv4_variable_prefix ==
  <<Open("proto"), Rep("any", 0, -1), Close("proto"), Lit(<<" ">>), Open("addr"),
    Rep("d", 1, 3), Lit(<<".">>), Rep("d", 1, 3), Lit(<<".">>), Rep("d", 1, 3), Lit(<<".">>),
    Rep("d", 1, 3), Close("addr"), Lit(<<"/">>), Open("mask"), Rep("d", 1, 2), Close("mask"),
    Lit(<<" ", "[">>), Rep("d", 1, -1), Lit(<<"/">>), Rep("d", 1, -1),
    Lit(<<"]", " ", "v", "i", "a", " ">>), Open("gw"), Rep("d", 1, 3), Lit(<<".">>),
    Rep("d", 1, 3), Lit(<<".">>), Rep("d", 1, 3), Lit(<<".">>), Rep("d", 1, 3), Close("gw"),
    Lit(<<",">>), Rep("any", 0, -1), Lit(<<",">>), Open("interface"), Rep("any", 0, -1),
    Close("interface")>>

\* r"\s+\[\d+/\d+] via (?P<gw>(?:\d{1,3}\.){3}\d{1,3}),.*,(?P<interface>.*)"
re_ipv4_prefix_ecmp ==
  <<Rep("s", 1, -1), Lit(<<"[">>), Rep("d", 1, -1), Lit(<<"/">>), Rep("d", 1, -1),
    Lit(<<"]", " ", "v", "i", "a", " ">>), Open("gw"), Rep("d", 1, 3), Lit(<<".">>),
    Rep("d", 1, 3), Lit(<<".">>), Rep("d", 1, 3), Lit(<<".">>), Rep("d", 1, 3), Close("gw"),
    Lit(<<",">>), Rep("any", 0, -1), Lit(<<",">>), Open("interface"), Rep("any", 0, -1),
    Close("interface")>>
\* The loop body with the directly-connected pattern tried before the
\* header patterns.
RouteBranchConnectedFirst(line) ==
  IF re_match(re_directly_connected, FALSE, line).ok THEN "directly_connected"
  ELSE IF re_search(re_fixed_mask, FALSE, line).ok THEN "fixed_mask"
  ELSE IF re_search(re_variable_mask, FALSE, line).ok THEN "variable_mask"
  ELSE IF re_match(re_ipv4_variable_prefix, FALSE, line).ok THEN "variable_prefix"
  ELSE IF re_match(re_ipv4_fixed_prefix, FALSE, line).ok THEN "fixed_prefix"
  ELSE IF re_match(re_ipv4_prefix_ecmp, FALSE, line).ok THEN "ecmp"
  ELSE "none"

\* The first of parse_lines' patterns, in the order the loop body tries
\* them, that matches a line.
RouteBranch(line) ==
  IF re_search(re_fixed_mask, FALSE, line).ok THEN "fixed_mask"
  ELSE IF re_search(re_variable_mask, FALSE, line).ok THEN "variable_mask"
  ELSE IF re_match(re_directly_connected, FALSE, line).ok THEN "directly_connected"
  ELSE IF re_match(re_ipv4_variable_prefix, FALSE, line).ok THEN "variable_prefix"
  ELSE IF re_match(re_ipv4_fixed_prefix, FALSE, line).ok THEN "fixed_prefix"
  ELSE IF re_match(re_ipv4_prefix_ecmp, FALSE, line).ok THEN "ecmp"
  ELSE "none"

\* The state after an entry was constructed for the at-th line: the entry
\* is yielded, or the exception of the constructor leaves the generator.
RouteYield(s, e, at) ==
  IF e.t = "raised"
  THEN [s EXCEPT !.exc = e.exc]
  ELSE [s EXCEPT !.out = Append(s.out, [at |-> at, e |-> e])]

\* The ECMP branch with the protocol of the route left out.
RouteEcmpEntryNoProto(s, g, i) ==
  IPv4RouteEntry(PyNone, s.current_addr, s.current_mask, g, i)

\* The entry the ECMP branch constructs: the route carried over in the
\* locals, with the line's own gateway and interface.
RouteEcmpEntry(s, g, i) ==
  IPv4RouteEntry(s.current_proto, s.current_addr, s.current_mask, g, i)

\* One iteration of parse_lines' for loop: the state of the generator (its
\* locals current_proto, current_mask and current_addr, out, the yields so
\* far, and exc, the exception that left it, "" for none) after it has read
\* line raw as its at-th line.
RouteStep(s, raw, at) ==
  LET line == RouteChars[raw]
      b    == RouteBranch(line)
  IN  CASE b = "fixed_mask" ->
             LET match == re_search(re_fixed_mask, FALSE, line)
             IN  [s EXCEPT !.current_addr = PyStr(group(match, line, "addr")),
                           !.current_mask = PyStr(group(match, line, "mask"))]
        [] b = "variable_mask" -> s
        [] b = "directly_connected" ->
             LET match == re_match(re_directly_connected, FALSE, line)
                 p == PyStr(strip(group(match, line, "proto")))
                 a == PyStr(group(match, line, "addr"))
                 m == PyStr(group(match, line, "mask"))
                 g == PyStr(<<>>)
                 i == PyStr(group(match, line, "interface"))
             IN  RouteYield(s, IPv4RouteEntry(p, a, m, g, i), at)
        [] b = "variable_prefix" ->
             LET match == re_match(re_ipv4_variable_prefix, FALSE, line)
                 p == PyStr(strip(group(match, line, "proto")))
                 a == PyStr(group(match, line, "addr"))
                 m == PyStr(group(match, line, "mask"))
                 g == PyStr(group(match, line, "gw"))
                 i == PyStr(group(match, line, "interface"))
             IN  RouteYield([s EXCEPT !.current_proto = p, !.current_addr = a,
                                      !.current_mask = m],
                            IPv4RouteEntry(p, a, m, g, i), at)
        [] b = "fixed_prefix" ->
             LET match == re_match(re_ipv4_fixed_prefix, FALSE, line)
                 p == PyStr(strip(group(match, line, "proto")))
                 a == PyStr(group(match, line, "addr"))
                 m == s.current_mask
                 g == PyStr(group(match, line, "gw"))
                 i == PyStr(group(match, line, "interface"))
             IN  RouteYield([s EXCEPT !.current_proto = p, !.current_addr = a],
                            IPv4RouteEntry(p, a, m, g, i), at)
        [] b = "ecmp" ->
             LET match == re_match(re_ipv4_prefix_ecmp, FALSE, line)
                 g == PyStr(group(match, line, "gw"))
                 i == PyStr(group(match, line, "interface"))
             IN  RouteYield(s, RouteEcmpEntry(s, g, i), at)
        [] OTHER -> s

\* The locals of parse_lines before its loop.
RouteStart ==
  [current_proto |-> PyNone, current_mask |-> PyNone, current_addr |-> PyNone,
   out |-> <<>>, exc |-> ""]

\* parse_lines consumed to its end, as the callers' for loops do: the
\* entries yielded, and the exception that ended it early, if any.
RECURSIVE RouteRun(_, _, _)
RouteRun(s, lines, i) ==
  IF i > Len(lines) \/ s.exc # "" THEN s
  ELSE RouteRun(RouteStep(s, lines[i], i), lines, i + 1)

parse_lines(lines) ==
  LET s == RouteRun(RouteStart, lines, 1)
  IN  [entries |-> [i \in 1..Len(s.out) |-> s.out[i].e], exc |-> s.exc]

\* The arguments of a direct construction IPv4RouteEntry(proto, addr, mask,
\* gw, interface): the mask given as a str (with a space or U+001C before
\* the digit among them) or as an int.
NewArgs ==
  {[proto |-> PyStr(<<"O">>), addr |-> PyStr(a), mask |-> m,
    gw |-> PyStr(<<"1", "0", ".", "0", ".", "0", ".", "1">>), interface |-> PyStr(<<"V", "l", "1">>)] :
     a \in {<<"1", "0", ".", "0", ".", "0", ".", "0">>, <<"1", "0", ".", "1", ".", "0", ".", "0">>},
     m \in {PyStr(<<"2", "4">>), PyStr(<<"8">>), PyStr(<<" ", "8">>), PyStr(<<"", "8">>),
           PyInt(24), PyInt(8)}}

RouteInit ==
  /\ rt_lines = <<>>
  /\ rt_current_proto = RouteStart.current_proto
  /\ rt_current_mask = RouteStart.current_mask
  /\ rt_current_addr = RouteStart.current_addr
  /\ rt_out = RouteStart.out
  /\ rt_pc = "run"
  /\ new_args = <<>>
  /\ new_obj = <<>>

\* parse_lines reads the next line of its input.
RouteParseLine(raw) ==
  LET s == RouteStep([current_proto |-> rt_current_proto, current_mask |-> rt_current_mask,
                      current_addr |-> rt_current_addr, out |-> rt_out, exc |-> ""],
                     raw, Len(rt_lines) + 1)
  IN  /\ rt_pc = "run"
      /\ new_obj = <<>>
      /\ Len(rt_lines) < MaxRouteLines
      /\ rt_lines' = Append(rt_lines, raw)
      /\ rt_current_proto' = s.current_proto
      /\ rt_current_mask' = s.current_mask
      /\ rt_current_addr' = s.current_addr
      /\ rt_out' = s.out
      /\ rt_pc' = IF s.exc # "" THEN "raised" ELSE "run"
      /\ UNCHANGED <<new_args, new_obj, cdp_vars, if_vars, st_vars, flt_vars, main_vars, gen_vars, call_vars>>

\* The for loop runs out of lines: the generator ends.
RouteEnd ==
  /\ rt_pc = "run"
  /\ new_obj = <<>>
  /\ rt_pc' = "done"
  /\ UNCHANGED <<rt_lines, rt_current_proto, rt_current_mask, rt_current_addr, rt_out>>
  /\ UNCHANGED <<new_args, new_obj, cdp_vars, if_vars, st_vars, flt_vars, main_vars, gen_vars, call_vars>>

\* An IPv4RouteEntry is constructed directly, as the doctests do.
RouteNew(args) ==
  /\ rt_pc = "run"
  /\ rt_lines = <<>>
  /\ new_obj = <<>>
  /\ new_args' = <<args>>
  /\ new_obj' = <<IPv4RouteEntry(args.proto, args.addr, args.mask, args.gw, args.interface)>>
  /\ UNCHANGED <<rt_lines, rt_current_proto, rt_current_mask, rt_current_addr, rt_out, rt_pc>>
  /\ UNCHANGED <<cdp_vars, if_vars, st_vars, flt_vars, main_vars, gen_vars, call_vars>>

RouteNext ==
  \/ \E raw \in RouteInputs : RouteParseLine(raw)
  \/ RouteEnd
  \/ \E args \in NewArgs : RouteNew(args)

-----------------------------------------------------------------------------
(* Claims on show ip route                                                 *)

\* The shape of each input line, as the claims name it: a header line holds
\* '<addr>/<mask> is subnetted' or '... is variably subnetted'; otherwise a
\* line is directly connected, a route with a mask, a route without a mask
\* or an ECMP continuation by the pattern it matches from its start, and
\* "other" when it matches none.
RouteShape ==
  [raw \in RouteInputs |->
     LET line == RouteChars[raw]
     IN  IF re_search(re_fixed_mask, FALSE, line).ok THEN "subnetted"
         ELSE IF re_search(re_variable_mask, FALSE, line).ok THEN "variably"
         ELSE IF re_match(re_directly_connected, FALSE, line).ok THEN "connected"
         ELSE IF re_match(re_ipv4_variable_prefix, FALSE, line).ok THEN "masked"
         ELSE IF re_match(re_ipv4_fixed_prefix, FALSE, line).ok THEN "maskless"
         ELSE IF re_match(re_ipv4_prefix_ecmp, FALSE, line).ok THEN "ecmp"
         ELSE "other"]

\* The gateway and the interface an ECMP continuation line names.
RouteEcmpFields ==
  [raw \in {r \in RouteInputs : RouteShape[r] = "ecmp"} |->
     LET line == RouteChars[raw]
         m    == re_match(re_ipv4_prefix_ecmp, FALSE, line)
     IN  [gw |-> PyStr(group(m, line, "gw")), interface |-> PyStr(group(m, line, "interface"))]]

\* The mask a '<addr>/<mask> is subnetted' header line names.
RouteHeaderMask ==
  [raw \in {r \in RouteInputs : RouteShape[r] = "subnetted"} |->
     LET line == RouteChars[raw]
     IN  int(group(re_search(re_fixed_mask, FALSE, line), line, "mask"))]

\* The entries parse_lines yielded for its at-th line.
RouteYieldsAt(at) == {i \in 1..Len(rt_out) : rt_out[i].at = at}

\* Two entries have the same mask attribute (or both have none).
RouteSameMask(e1, e2) ==
  /\ HasMask(e1) = HasMask(e2)
  /\ HasMask(e1) => e1.mask = e2.mask

\* Line k is a continuation of the route of line j: line j is a route line
\* with a prefix and a gateway and lines j+1 .. k are ECMP continuations.
RouteContinues(j, k) ==
  /\ j < k
  /\ RouteShape[rt_lines[j]] \in {"masked", "maskless"}
  /\ \A x \in (j + 1)..k : RouteShape[rt_lines[x]] = "ecmp"

\* C4: an ECMP continuation line that follows a route line with a prefix
\* and a gateway, directly or after other continuation lines of that route,
\* yields an entry with the proto, addr and mask of the entry of the route's
\* first line and with its own gw and interface.
C4_EcmpCarriesRoute ==
  \A j \in 1..Len(rt_lines) : \A k \in 1..Len(rt_lines) :
    RouteContinues(j, k) =>
      \E a \in RouteYieldsAt(j) : \E b \in RouteYieldsAt(k) :
        /\ rt_out[b].e.proto = rt_out[a].e.proto
        /\ rt_out[b].e.addr = rt_out[a].e.addr
        /\ RouteSameMask(rt_out[b].e, rt_out[a].e)
        /\ rt_out[b].e.gw = RouteEcmpFields[rt_lines[k]].gw
        /\ rt_out[b].e.interface = RouteEcmpFields[rt_lines[k]].interface

\* C4 witness: a route line with a mask was followed by two continuation
\* lines, and the second one yielded an entry with a mask.
C4_Witness ==
  \E j \in 1..Len(rt_lines) :
    /\ j + 2 <= Len(rt_lines)
    /\ RouteContinues(j, j + 2)
    /\ RouteShape[rt_lines[j]] = "masked"
    /\ \E b \in RouteYieldsAt(j + 2) : HasMask(rt_out[b].e)

\* C5 (as claimed): a route line without a mask yields an entry whose mask
\* is the mask of the most recent '<addr>/<mask> is subnetted' header line
\* before it.
C5_MaskOfLastHeader ==
  \A k \in 1..Len(rt_lines) :
    LET heads == {j \in 1..(k - 1) : RouteShape[rt_lines[j]] = "subnetted"}
    IN  (RouteShape[rt_lines[k]] = "maskless" /\ heads # {}) =>
          LET h == CHOOSE j \in heads : \A x \in heads : x <= j
          IN  \E b \in RouteYieldsAt(k) :
                /\ HasMask(rt_out[b].e)
                /\ rt_out[b].e.mask = PyInt(RouteHeaderMask[rt_lines[h]])

\* C6 (as claimed): every IPv4RouteEntry, constructed directly with a str
\* or an int mask or yielded by parse_lines, has a mask attribute that is an
\* int, for a direct construction the prefix length given.
C6_MaskIsInt ==
  /\ \A i \in 1..Len(rt_out) : HasMask(rt_out[i].e) /\ rt_out[i].e.mask.t = "int"
  /\ new_obj # <<>> =>
       /\ new_obj[1].t = "IPv4RouteEntry"
       /\ HasMask(new_obj[1])
       /\ new_obj[1].mask.t = "int"
       /\ new_obj[1].mask.n = (IF new_args[1].mask.t = "int" THEN new_args[1].mask.n
                               ELSE int(new_args[1].mask.s))

\* C7: the first pattern that matches decides the line: every line yields
\* at most one entry, and a header line ('is subnetted', 'is variably
\* subnetted'), whatever else it matches, and a line that matches no pattern
\* yield none.
C7_FirstMatchDecides ==
  \A k \in 1..Len(rt_lines) :
    /\ Cardinality(RouteYieldsAt(k)) <= 1
    /\ RouteShape[rt_lines[k]] \in {"subnetted", "variably", "other"} => RouteYieldsAt(k) = {}

\* C7 witness: parse_lines has read a header line that also matches the
\* directly-connected pattern, a line that matches no pattern and a route
\* line, and yielded for the route line only.
C7_Witness ==
  /\ \E k \in 1..Len(rt_lines) :
       /\ re_search(re_fixed_mask, FALSE, RouteChars[rt_lines[k]]).ok
       /\ re_match(re_directly_connected, FALSE, RouteChars[rt_lines[k]]).ok
  /\ \E k \in 1..Len(rt_lines) : RouteShape[rt_lines[k]] = "other"
  /\ \E k \in 1..Len(rt_lines) : RouteShape[rt_lines[k]] = "masked" /\ RouteYieldsAt(k) # {}

-----------------------------------------------------------------------------
(* re.compile and search for a pattern the caller writes (filter_dict).    *)
(* The pattern is parsed as module re parses it, into a tree of nodes, and *)
(* searched by following the set of positions a match can have reached,    *)
(* which decides whether the pattern is found and nothing more.            *)

AsciiLetters == {Chr[k] : k \in (65..90) \cup (97..122)}

\* _sre.unicode_iscased on the characters of Chr: the letters that have
\* another case, the micro sign U+00B5 among them.
CasedChars ==
  {Chr[k] : k \in (65..90) \cup (97..122) \cup {181} \cup (192..214) \cup (216..246)
                    \cup (248..255)}

IsCased(ch) == ch \in CasedChars

\* A node of a parsed pattern.  t is "lit" (the character ch), "any" (the
\* dot), "in" (a set of items, negated when neg), "at" (ch names the
\* place), "cat" (kids one after the other), "alt" (one of kids), "group"
\* (kids[1] in parentheses) or "rep" (kids[1] lo to hi times, hi = -1 for no
\* limit).
ReNode(t, ch, items, neg, lo, hi, kids) ==
  [t |-> t, ch |-> ch, items |-> items, neg |-> neg, lo |-> lo, hi |-> hi, kids |-> kids]

\* An item of a set: k is "lit" (lo), "range" (lo to hi) or "cat" (the
\* category \lo).
ReItem(k, lo, hi) == [k |-> k, lo |-> lo, hi |-> hi]

\* What a parsing step gives: the node (or the items) read, the position
\* after it, and err: "" when it was read, "re.error" when re.compile
\* raises re.error there, "unmodelled" for a construct these definitions do
\* not cover (a group that starts with (? other than (?:, a possessive
\* repeat, the escapes \a \x \u \U \N and those of digits, a range with an
\* end outside of Chr).
ReRead(node, pos) == [err |-> "", node |-> node, pos |-> pos]

ReFail(err) == [err |-> err, node |-> <<>>, pos |-> 0]

\* The character an escape of a letter stands for, "" if none.
ReControl(c) ==
  CASE c = "n" -> "\n"
    [] c = "r" -> "\r"
    [] c = "t" -> "\t"
    [] c = "f" -> "\f"
    [] c = "v" -> ""
    [] OTHER   -> ""

\* _escape: the escape at q[i] (a backslash) outside of a set.
ReEscape(q, i) ==
  IF i = Len(q) THEN ReFail("re.error")
  ELSE LET c == q[i + 1] IN
    CASE c \in {"A", "Z", "b", "B"} ->
           ReRead(ReNode("at", c, <<>>, FALSE, 0, 0, <<>>), i + 2)
      [] c \in {"d", "D", "s", "S", "w", "W"} ->
           ReRead(ReNode("in", "", <<ReItem("cat", c, "")>>, FALSE, 0, 0, <<>>), i + 2)
      [] ReControl(c) # "" ->
           ReRead(ReNode("lit", ReControl(c), <<>>, FALSE, 0, 0, <<>>), i + 2)
      [] c \in {"a", "x", "u", "U", "N"} \cup Digits -> ReFail("unmodelled")
      [] c \in AsciiLetters -> ReFail("re.error")
      [] OTHER -> ReRead(ReNode("lit", c, <<>>, FALSE, 0, 0, <<>>), i + 2)

\* _class_escape, or a plain character: the member of a set at q[i].
ReSetMember(q, i) ==
  IF q[i] # "\\" THEN ReRead(ReItem("lit", q[i], ""), i + 1)
  ELSE IF i = Len(q) THEN ReFail("re.error")
  ELSE LET c == q[i + 1] IN
    CASE ReControl(c) # "" -> ReRead(ReItem("lit", ReControl(c), ""), i + 2)
      [] c \in {"d", "D", "s", "S", "w", "W"} -> ReRead(ReItem("cat", c, ""), i + 2)
      [] c \in {"a", "b", "x", "u", "U", "N"} \cup Digits -> ReFail("unmodelled")
      [] c \in AsciiLetters -> ReFail("re.error")
      [] OTHER -> ReRead(ReItem("lit", c, ""), i + 2)

\* The members of a set from q[i] to its closing bracket.
RECURSIVE ReSetItems(_, _, _)
ReSetItems(q, i, set) ==
  IF i > Len(q) THEN ReFail("re.error")
  ELSE IF q[i] = "]" /\ set # <<>> THEN ReRead(set, i + 1)
  ELSE Bind(ReSetMember(q, i), LAMBDA code1 :
    IF code1.err # "" THEN code1
    ELSE IF code1.pos <= Len(q) /\ q[code1.pos] = "-"
    THEN IF code1.pos = Len(q) THEN ReFail("re.error")
         ELSE IF q[code1.pos + 1] = "]"
         THEN ReRead(set \o <<code1.node, ReItem("lit", "-", "")>>, code1.pos + 2)
         ELSE Bind(ReSetMember(q, code1.pos + 1), LAMBDA code2 :
           IF code2.err # "" THEN code2
           ELSE IF code1.node.k # "lit" \/ code2.node.k # "lit" THEN ReFail("re.error")
           ELSE IF Ord(code1.node.lo) = 0 \/ Ord(code2.node.lo) = 0 THEN ReFail("unmodelled")
           ELSE IF Ord(code2.node.lo) < Ord(code1.node.lo) THEN ReFail("re.error")
           ELSE ReSetItems(q, code2.pos,
                           Append(set, ReItem("range", code1.node.lo, code2.node.lo))))
    ELSE ReSetItems(q, code1.pos, Append(set, code1.node)))

\* The set at q[i] (an opening bracket).
ReSet(q, i) ==
  LET negate == i < Len(q) /\ q[i + 1] = "^"
  IN  Bind(ReSetItems(q, IF negate THEN i + 2 ELSE i + 1, <<>>), LAMBDA r :
        IF r.err # "" THEN r
        ELSE ReRead(ReNode("in", "", r.node, negate, 0, 0, <<>>), r.pos))

\* The digits of q from position i on.
RECURSIVE ReDigits(_, _)
ReDigits(q, i) ==
  IF i <= Len(q) /\ q[i] \in Digits THEN <<q[i]>> \o ReDigits(q, i + 1) ELSE <<>>

\* The repeat sign at q[i]: its least and largest count and the position
\* after it; plain is TRUE for an opening brace that is no repeat, which
\* stands for itself.
ReCount(q, i) ==
  LET lo     == ReDigits(q, i + 1)
      j      == i + 1 + Len(lo)
      comma  == j <= Len(q) /\ q[j] = ","
      hi     == IF comma THEN ReDigits(q, j + 1) ELSE lo
      k      == IF comma THEN j + 1 + Len(hi) ELSE j
      min    == IF lo # <<>> THEN DigitsValue(lo) ELSE 0
      max    == IF hi # <<>> THEN DigitsValue(hi) ELSE -1
  IN  CASE q[i] = "?" -> [plain |-> FALSE, err |-> "", lo |-> 0, hi |-> 1, pos |-> i + 1]
        [] q[i] = "*" -> [plain |-> FALSE, err |-> "", lo |-> 0, hi |-> -1, pos |-> i + 1]
        [] q[i] = "+" -> [plain |-> FALSE, err |-> "", lo |-> 1, hi |-> -1, pos |-> i + 1]
        [] q[i] = "{" ->
             IF (i < Len(q) /\ q[i + 1] = "}") \/ ~(k <= Len(q) /\ q[k] = "}")
             THEN [plain |-> TRUE, err |-> "", lo |-> 0, hi |-> 0, pos |-> i + 1]
             ELSE [plain |-> FALSE,
                   err   |-> IF max >= 0 /\ max < min THEN "re.error" ELSE "",
                   lo |-> min, hi |-> max, pos |-> k + 1]

RECURSIVE ReSub(_, _, _)
RECURSIVE ReParse(_, _, _)

\* The group at q[i] (an opening parenthesis).
ReGroup(q, i) ==
  IF i < Len(q) /\ q[i + 1] = "?" /\ ~(i + 1 < Len(q) /\ q[i + 2] = ":")
  THEN ReFail("unmodelled")
  ELSE Bind(ReSub(q, IF i < Len(q) /\ q[i + 1] = "?" THEN i + 3 ELSE i + 1, <<>>), LAMBDA p :
    IF p.err # "" THEN p
    ELSE IF ~(p.pos <= Len(q) /\ q[p.pos] = ")") THEN ReFail("re.error")
    ELSE ReRead(ReNode("group", "", <<>>, FALSE, 0, 0, <<p.node>>), p.pos + 1))

\* The repeat sign at q[i] after the items read so far.
ReRepeat(q, i, subpattern) ==
  Bind(ReCount(q, i), LAMBDA c :
    LET n    == Len(subpattern)
        item == subpattern[n]
        rep  == ReNode("rep", "", <<>>, FALSE, c.lo, c.hi, <<item>>)
    IN  IF c.plain
        THEN ReParse(q, c.pos, Append(subpattern, ReNode("lit", "{", <<>>, FALSE, 0, 0, <<>>)))
        ELSE IF c.err # "" THEN ReFail(c.err)
        ELSE IF n = 0 \/ item.t = "at" THEN ReFail("re.error")
        ELSE IF item.t = "rep" THEN ReFail("re.error")
        ELSE IF c.pos <= Len(q) /\ q[c.pos] = "+" THEN ReFail("unmodelled")
        ELSE ReParse(q, IF c.pos <= Len(q) /\ q[c.pos] = "?" THEN c.pos + 1 ELSE c.pos,
                     Append(SubSeq(subpattern, 1, n - 1), rep)))

\* _parse: the items of one alternative from q[i] on, after subpattern.
ReParse(q, i, items) ==
  Bind(items, LAMBDA subpattern :
  IF i > Len(q) \/ q[i] \in {"|", ")"}
  THEN ReRead(ReNode("cat", "", <<>>, FALSE, 0, 0, subpattern), i)
  ELSE LET this == q[i]
           code == CASE this = "\\" -> ReEscape(q, i)
                     [] this = "["  -> ReSet(q, i)
                     [] this = "("  -> ReGroup(q, i)
                     [] this = "."  -> ReRead(ReNode("any", "", <<>>, FALSE, 0, 0, <<>>), i + 1)
                     [] this \in {"^", "$"} ->
                          ReRead(ReNode("at", this, <<>>, FALSE, 0, 0, <<>>), i + 1)
                     [] OTHER -> ReRead(ReNode("lit", this, <<>>, FALSE, 0, 0, <<>>), i + 1)
       IN  IF this \in {"*", "+", "?", "{"} THEN ReRepeat(q, i, subpattern)
           ELSE Bind(code, LAMBDA c :
                  IF c.err # "" THEN c
                  ELSE ReParse(q, c.pos, Append(subpattern, c.node))))

\* _parse_sub: the alternatives from q[i] on, after the alternatives items.
ReSub(q, i, items) ==
  Bind(ReParse(q, i, <<>>), LAMBDA p :
    IF p.err # "" THEN p
    ELSE IF p.pos <= Len(q) /\ q[p.pos] = "|" THEN ReSub(q, p.pos + 1, Append(items, p.node))
    ELSE IF items = <<>> THEN p
    ELSE ReRead(ReNode("alt", "", <<>>, FALSE, 0, 0, Append(items, p.node)), p.pos))

\* re.compile(pattern): the tree of the pattern; a closing parenthesis
\* that nothing opened is an error.
re_compile(q) ==
  Bind(ReSub(q, 1, <<>>), LAMBDA p :
    IF p.err = "" /\ p.pos <= Len(q) THEN ReFail("re.error") ELSE p)

\* The characters of the model's strings that re takes for a word
\* character on a str pattern (str.isalnum or the underscore): the ASCII
\* letters and digits, the underscore, U+00AA, U+00B2, U+00B3, U+00B5,
\* U+00B9, U+00BA, U+00BC to U+00BE and U+00C0 to U+00FF without the signs
\* U+00D7 and U+00F7.
WordChars ==
  {Chr[k] : k \in (48..57) \cup (65..90) \cup {95} \cup (97..122)
                    \cup {170, 178, 179, 181, 185, 186, 188, 189, 190}
                    \cup (192..214) \cup (216..246) \cup (248..255)}

\* \w
IsWord(ch) == ch \in WordChars

\* The character ch is in the category \c.
ReCategory(c, ch) ==
  CASE c = "d" -> ch \in Digits
    [] c = "D" -> ch \notin Digits
    [] c = "s" -> ch \in Whitespace
    [] c = "S" -> ch \notin Whitespace
    [] c = "w" -> IsWord(ch)
    [] c = "W" -> ~IsWord(ch)

\* The character ch is in the item of a set.
ReItemHas(item, ch) ==
  CASE item.k = "lit"   -> ch = item.lo
    [] item.k = "range" -> Ord(ch) # 0 /\ Ord(item.lo) <= Ord(ch) /\ Ord(ch) <= Ord(item.hi)
    [] item.k = "cat"   -> ReCategory(item.lo, ch)

\* hascased of _optimize_charset: the set names a character that has
\* another case.
ReHasCased(items) ==
  \E k \in 1..Len(items) :
    \/ items[k].k = "lit" /\ IsCased(items[k].lo)
    \/ items[k].k = "range"
         /\ \E c \in Ord(items[k].lo)..Ord(items[k].hi) : IsCased(Chr[c])

\* The lower-case character lo is in the item of a set compiled with
\* re.IGNORECASE, where _optimize_charset puts the lower case of every
\* character of the item in the set.  (The characters it adds for i, s and
\* the micro sign, U+0131, U+017F and U+03BC, are the lower case of no
\* character of the model's strings.)
ReItemHasLower(item, lo) ==
  CASE item.k = "lit"   -> Lower(item.lo) = lo
    [] item.k = "range" ->
         \E c \in Ord(item.lo)..Ord(item.hi) : Chr[c] # "" /\ Lower(Chr[c]) = lo
    [] item.k = "cat"   -> ReCategory(item.lo, lo)

\* The node n, which takes one character, takes ch.  With re.IGNORECASE
\* (ic) a literal that has another case, and a set that names such a
\* character, are compared with the lower case of ch; any other literal
\* or set with ch itself.
ReTakes(n, ic, ch) ==
  CASE n.t = "lit" ->
         IF ic /\ IsCased(n.ch) THEN Lower(ch) = Lower(n.ch) ELSE ch = n.ch
    [] n.t = "any" -> ch # "\n"
    [] n.t = "in"  ->
         IF ic /\ ReHasCased(n.items)
         THEN n.neg # (\E k \in 1..Len(n.items) : ReItemHasLower(n.items[k], Lower(ch)))
         ELSE n.neg # (\E k \in 1..Len(n.items) : ReItemHas(n.items[k], ch))

\* Position p of s is the place the node n (an "at") names.
ReAt(n, s, p) ==
  LET word(i) == i >= 1 /\ i <= Len(s) /\ IsWord(s[i])
  IN  CASE n.ch \in {"^", "A"} -> p = 1
        [] n.ch = "$" -> p = Len(s) + 1 \/ (p = Len(s) /\ s[p] = "\n")
        [] n.ch = "Z" -> p = Len(s) + 1
        [] n.ch = "b" -> word(p - 1) # word(p)
        [] n.ch = "B" -> s # <<>> /\ word(p - 1) = word(p)

RECURSIVE ReEnds(_, _, _, _)
RECURSIVE ReCat(_, _, _, _, _)
RECURSIVE ReTimes(_, _, _, _, _)
RECURSIVE ReMore(_, _, _, _, _, _)

\* The positions of s where a match of node n ends that started at a
\* position of P.
ReEnds(n, ic, s, P) ==
  CASE n.t \in {"lit", "any", "in"} ->
         {p + 1 : p \in {x \in P : x <= Len(s) /\ ReTakes(n, ic, s[x])}}
    [] n.t = "at"    -> {p \in P : ReAt(n, s, p)}
    [] n.t = "cat"   -> ReCat(n.kids, 1, ic, s, P)
    [] n.t = "alt"   -> UNION {ReEnds(n.kids[k], ic, s, P) : k \in 1..Len(n.kids)}
    [] n.t = "group" -> ReEnds(n.kids[1], ic, s, P)
    [] n.t = "rep"   ->
         LET least == ReTimes(n.kids[1], ic, s, P, n.lo)
         IN  ReMore(n.kids[1], ic, s, least, least,
                    IF n.hi < 0 THEN -1 ELSE n.hi - n.lo)

\* kids[k], kids[k + 1], ... one after the other.
ReCat(kids, k, ic, s, P) ==
  IF k > Len(kids) \/ P = {} THEN P
  ELSE ReCat(kids, k + 1, ic, s, ReEnds(kids[k], ic, s, P))

\* n exactly cnt times.
ReTimes(n, ic, s, P, cnt) ==
  IF cnt = 0 \/ P = {} THEN P
  ELSE ReTimes(n, ic, s, ReEnds(n, ic, s, P), cnt - 1)

\* n at most cnt more times (without limit for cnt = -1) after the
\* positions all, of which the positions new were reached last.
ReMore(n, ic, s, all, new, cnt) ==
  LET next == ReEnds(n, ic, s, new) \ all
  IN  IF cnt = 0 \/ next = {} THEN all
      ELSE ReMore(n, ic, s, all \cup next, next, IF cnt < 0 THEN -1 ELSE cnt - 1)

\* r.search(s) of the compiled pattern r finds a match.
re_found(r, ic, s) == ReEnds(r, ic, s, 1..(Len(s) + 1)) # {}

-----------------------------------------------------------------------------
(* filter_dict and get_filter_result, which the parser classes repeat       *)

\* re.compile(r"%s" % value_query, re.IGNORECASE): value_query, a string,
\* is the pattern as it stands.
filter_compile(value_query) == re_compile(value_query)

\* The queries filter_dict is defined for here.
filter_modelled(value_query) == filter_compile(value_query).err # "unmodelled"

\* filter_dict(key, value_query): None for an empty key; else the query is
\* compiled, which raises re.error for a query that is no pattern, and the
\* closure _filter is returned with its key and its compiled query r, a
\* pattern object: the pattern as written and its tree.
filter_dict(key, value_query) ==
  IF key = "" THEN PyNone
  ELSE LET r == filter_compile(value_query)
       IN  IF r.err # "" THEN Raise(r.err)
           ELSE [t |-> "function", key |-> key,
                 r |-> [pattern |-> value_query, node |-> r.node]]

\* A variant of _filter that searches with the case of the letters kept.
filter_call_case(f, d) ==
  LET v == DictGet(d.items, f.key, <<>>)
  IN  IF re_found(f.r.node, FALSE, v) THEN d ELSE PyNone

\* _filter(d) of the closure f: d when the query is found in d.get(key, ""),
\* else None.
filter_call(f, d) ==
  LET v == DictGet(d.items, f.key, <<>>)
  IN  IF re_found(f.r.node, TRUE, v) THEN d ELSE PyNone

\* get_filter_result(d, funcs)
RECURSIVE get_filter_result(_, _)
get_filter_result(d, funcs) ==
  LET func   == funcs[1]
      result == filter_call(func, d)
  IN  IF Truthy(result) /\ Tail(funcs) # <<>>
      THEN get_filter_result(d, Tail(funcs))
      ELSE result

\* Bound: the number of filter functions in funcs.
MaxFuncs == 2

\* The records the model filters: the empty dictionary and the records of
\* three rows of show interfaces status.
FilterDicts ==
  {PyDict(EmptyDict)} \cup
  {PyDict(status_make_dict_by_line(StatusChars[raw])) :
     raw \in {r \in StatusInputs : Len(StatusChars[r]) >= min_len /\ StatusChars[r] # start_string}}

\* The filter functions of the model.
FilterFuncs ==
  {filter_dict(key, q) :
     key \in {"Status", "Speed"},
     q \in {<<>>, <<"c", "o", "n", "n", "e", "c", "t", "e", "d">>, <<"1", "0", "G">>,
            <<"T", "R", "U", "N", "K">>, <<"[", "^", "0", "]">>}}

FilterFuncLists == UNION {[1..n -> FilterFuncs] : n \in 1..MaxFuncs}

FilterInit ==
  /\ flt_d = PyNone
  /\ flt_funcs = <<>>
  /\ flt_result = PyNone
  /\ flt_pc = "idle"

\* A call get_filter_result(d, funcs).
FilterCall(d, funcs) ==
  /\ flt_pc = "idle"
  /\ flt_d' = d
  /\ flt_funcs' = funcs
  /\ flt_result' = get_filter_result(d, funcs)
  /\ flt_pc' = "done"
  /\ UNCHANGED <<cdp_vars, if_vars, st_vars, rt_vars, main_vars, gen_vars, call_vars>>

FilterNext == \E d \in FilterDicts : \E funcs \in FilterFuncLists : FilterCall(d, funcs)

\* C8 (as claimed): get_filter_result(d, funcs) returns d when every
\* function of funcs returns non-None for d, and None otherwise, for every
\* record d, the empty dictionary included.
C8_LogicalAnd ==
  flt_pc = "done" =>
    IF \A i \in 1..Len(flt_funcs) : filter_call(flt_funcs[i], flt_d).t # "NoneType"
    THEN flt_result.t = "dict" /\ flt_result.items = flt_d.items
    ELSE flt_result.t = "NoneType"

-----------------------------------------------------------------------------
(* The scripts: get_lines, save and main                                   *)

\* The fieldnames of each parser class: the CSV header.
cdp_fieldnames ==
  <<"device_id", "local_interface", "holdtime", "capability", "platform", "port_id">>

if_fieldnames == DictKeys(token_dict)

status_fieldnames == <<"Port", "Name", "Status", "Vlan", "Duplex", "Speed", "Type">>

log_fieldnames == DictKeys(log_token_dict)

\* The scripts whose main reads the file named on the command line.
FileScripts == {"cdp", "interfaces", "status", "logging"}

\* The lines each script's model knows, with their characters.
ScriptChars(script) ==
  CASE script = "cdp"        -> CdpChars
    [] script = "interfaces" -> IfChars
    [] script = "status"     -> StatusChars
    [] script = "logging"    -> LogChars
    [] script = "route"      -> RouteChars

\* Bound: the number of lines of an input file of the first four scripts.
MaxMainLines == 2

\* An input file: one that cannot be opened, or its lines (without their
\* line breaks).
NoFile == [exists |-> FALSE]

File(lines) == [exists |-> TRUE, lines |-> lines]

\* The lines of the tables that end with a line break: get_lines has none.
LineBreakInputs == {"Gi1 is up, line protocol is up\n"}

MainFiles(script) ==
  {NoFile} \cup
  {File(lines) :
     lines \in UNION {[1..n -> DOMAIN ScriptChars(script) \ LineBreakInputs] :
                        n \in 0..MaxMainLines}}

\* The files show_ip_route1.log and show_ip_route2.log that the route
\* script's main reads.
RouteFiles ==
  {NoFile, File(<<>>),
   File(<<"      10.0.0.0/16 is subnetted, 2 subnets",
          "O E1     100.3.0.0 [110/122] via 10.245.2.2, 7w0d, Vlan102",
          "                  [110/2] via 10.245.12.2, 7w0d, Vlan12">>),
   File(<<"O        10.244.0.0/24 [110/2] via 10.245.11.2, 7w0d, Vlan111",
          "S        110.0.0.0/8 is directly connected, Null0">>),
   File(<<"O E1     100.3.0.0 [110/122] via 10.245.2.2, 7w0d, Vlan102">>),
   File(<<"                  [110/2] via 10.245.12.2, 7w0d, Vlan12">>)}

\* x.rstrip() for a line of a file: the line of the table with the
\* characters left.
RstripLine(chars, raw) == CHOOSE n \in DOMAIN chars : chars[n] = rstrip(chars[raw])

\* get_lines(filename): None when the file cannot be opened, else the list
\* of its lines, each rstrip'ped.  (Read from the standard input, filename
\* "-", the lines are treated the same and the result is never None.)
get_lines(file, chars) ==
  IF ~file.exists THEN PyNone
  ELSE PyList([i \in 1..Len(file.lines) |-> RstripLine(chars, file.lines[i])])

\* list(parser.parse(lines)) of each script's parser.
MainParseLines(script, lines) ==
  CASE script = "cdp"        -> cdp_parse(lines)
    [] script = "interfaces" -> if_parse(lines)
    [] script = "status"     -> status_parse(lines)
    [] script = "logging"    -> log_parse(lines)

MainFieldnames(script) ==
  CASE script = "cdp"        -> cdp_fieldnames
    [] script = "interfaces" -> if_fieldnames
    [] script = "status"     -> status_fieldnames
    [] script = "logging"    -> log_fieldnames

\* What becomes of the output file: it is written ("ok"), open() fails
\* ("IOError"), or the file is opened and the csv writer fails on the header
\* ("csv.Error").
DiskOutcomes == {"ok", "IOError", "csv.Error"}

\* The try block of save: the file it leaves and the exception raised in
\* it ("" for none).  A file written holds its header and one row per
\* record with the values of the fieldnames ("" for a key the record lacks,
\* the other keys ignored); a file opened and not written is empty.
save_try(dicts, fieldnames, disk) ==
  CASE disk = "IOError"   -> [file |-> <<>>, exc |-> "IOError"]
    [] disk = "csv.Error" -> [file |-> <<[header |-> <<>>, rows |-> <<>>]>>, exc |-> "csv.Error"]
    [] OTHER ->
         [file |-> <<[header |-> fieldnames,
                      rows   |-> [i \in 1..Len(dicts) |->
                                    [j \in 1..Len(fieldnames) |->
                                       DictGet(dicts[i], fieldnames[j], <<>>)]]]>>,
          exc  |-> ""]

\* An except part that handles a failure to open the file only.
save_except_open == {"IOError"}

\* The exceptions the except clauses of save handle, each by a log message.
save_except == {"IOError", "csv.Error"}

\* save(dicts, fieldnames, output_filename): the file it leaves and the
\* exception that leaves save ("" for none).
save(dicts, fieldnames, disk) ==
  LET r == save_try(dicts, fieldnames, disk)
  IN  [file |-> r.file, exc |-> IF r.exc \in save_except THEN "" ELSE r.exc]

\* IPv4RouteEntry.__eq__(self, other): the comparison builds the list of
\* its three tests first, so it reads both mask attributes.
RouteEq(self, other) ==
  IF ~HasMask(self) \/ ~HasMask(other) THEN Raise("AttributeError")
  ELSE PyInt(IF /\ self.addr = other.addr
                /\ self.mask = other.mask
                /\ self.gw = other.gw THEN 1 ELSE 0)

\* addr in entries: the elements are compared in turn until one is equal.
RECURSIVE RouteIn(_, _, _)
RouteIn(addr, entries, i) ==
  IF i > Len(entries) THEN PyInt(0)
  ELSE LET eq == RouteEq(entries[i], addr)
       IN  IF eq.t = "raised" \/ eq.n = 1 THEN eq ELSE RouteIn(addr, entries, i + 1)

\* [addr for addr in entries1 if addr not in entries2], with str(addr) of
\* each as test_diff prints them afterwards: the list, or the exception
\* raised on the way (__repr__ reads the mask attribute too).
RECURSIVE RouteMinus(_, _, _)
RouteMinus(entries1, entries2, i) ==
  IF i > Len(entries1) THEN PyList(<<>>)
  ELSE LET found == RouteIn(entries1[i], entries2, 1)
           rest  == RouteMinus(entries1, entries2, i + 1)
       IN  IF found.t = "raised" THEN found
           ELSE IF rest.t = "raised" THEN rest
           ELSE IF found.n = 1 THEN rest
           ELSE IF ~HasMask(entries1[i]) THEN Raise("AttributeError")
           ELSE PyList(<<entries1[i]>> \o rest.items)

\* The end of test_diff: the lists minus and plus are built and printed.
\* The comprehension for common raises whenever the one for minus does, so
\* minus stands for both.
TestDiffCompare(entries1, entries2) ==
  IF RouteMinus(entries1, entries2, 1).t = "raised" THEN Raise("AttributeError")
  ELSE IF RouteMinus(entries2, entries1, 1).t = "raised" THEN Raise("AttributeError")
  ELSE PyNone

\* test_diff once both files are parsed.
TestDiffParsed(r1, r2) ==
  IF r1.exc # "" THEN Raise(r1.exc)
  ELSE IF r2.exc # "" THEN Raise(r2.exc)
  ELSE TestDiffCompare(r1.entries, r2.entries)

\* parse_lines(lines) in a for loop; parse_lines(None) raises TypeError.
TestDiffParse(lines) ==
  IF lines.t = "NoneType" THEN [entries |-> <<>>, exc |-> "TypeError"]
  ELSE parse_lines(lines.items)

\* test_diff(): None when it returns, else the exception that leaves it.
test_diff(file1, file2) ==
  TestDiffParsed(TestDiffParse(get_lines(file1, RouteChars)),
                 TestDiffParse(get_lines(file2, RouteChars)))

MainInit ==
  /\ main_script = ""
  /\ main_file = <<>>
  /\ main_disk = "ok"
  /\ main_lines = PyNone
  /\ main_results = PyNone
  /\ main_csv = <<>>
  /\ main_ret = PyNone
  /\ main_pc = "idle"

\* main of one of the first four scripts, up to its test of lines: the
\* input file is read; without lines main returns 1.
MainGetLines(script, file, disk) ==
  LET lines == get_lines(file, ScriptChars(script))
  IN  /\ main_pc = "idle"
      /\ main_script' = script
      /\ main_file' = <<file>>
      /\ main_disk' = disk
      /\ main_lines' = lines
      /\ IF Truthy(lines)
         THEN main_pc' = "parse" /\ main_ret' = main_ret
         ELSE main_pc' = "returned" /\ main_ret' = PyInt(1)
      /\ UNCHANGED <<main_results, main_csv>>
      /\ UNCHANGED <<cdp_vars, if_vars, st_vars, rt_vars, flt_vars, gen_vars, call_vars>>

\* main runs the parser over the lines and collects the records; main of
\* the interfaces and logging scripts returns 1 when there are none.
MainParse ==
  LET results == PyList(MainParseLines(main_script, main_lines.items))
  IN  /\ main_pc = "parse"
      /\ main_results' = results
      /\ IF main_script \in {"interfaces", "logging"} /\ ~Truthy(results)
         THEN main_pc' = "returned" /\ main_ret' = PyInt(1)
         ELSE main_pc' = "save" /\ main_ret' = main_ret
      /\ UNCHANGED <<main_script, main_file, main_disk, main_lines, main_csv>>
      /\ UNCHANGED <<cdp_vars, if_vars, st_vars, rt_vars, flt_vars, gen_vars, call_vars>>

\* The end of main from its call of save: the file save leaves, and main's
\* return value or the exception that leaves main.  After save the cdp and
\* status scripts return 0; the interfaces and logging scripts have no
\* return statement there and return None.
MainSaveEnd(script, results, disk) ==
  LET r == save(results.items, MainFieldnames(script), disk)
  IN  IF r.exc # ""
      THEN [csv |-> r.file, pc |-> "raised", ret |-> Raise(r.exc)]
      ELSE [csv |-> r.file, pc |-> "returned",
            ret |-> IF script \in {"cdp", "status"} THEN PyInt(0) ELSE PyNone]

\* main saves the records and comes to its end.
MainSave ==
  /\ main_pc = "save"
  /\ main_csv' = MainSaveEnd(main_script, main_results, main_disk).csv
  /\ main_ret' = MainSaveEnd(main_script, main_results, main_disk).ret
  /\ main_pc' = MainSaveEnd(main_script, main_results, main_disk).pc
  /\ UNCHANGED <<main_script, main_file, main_disk, main_lines, main_results>>
  /\ UNCHANGED <<cdp_vars, if_vars, st_vars, rt_vars, flt_vars, gen_vars, call_vars>>

\* main of the route script: test_diff() on its two files, then return 0.
MainRoute(file1, file2) ==
  LET r == test_diff(file1, file2)
  IN  /\ main_pc = "idle"
      /\ main_script' = "route"
      /\ main_file' = <<file1, file2>>
      /\ IF r.t = "raised"
         THEN main_pc' = "raised" /\ main_ret' = r
         ELSE main_pc' = "returned" /\ main_ret' = PyInt(0)
      /\ UNCHANGED <<main_disk, main_lines, main_results, main_csv>>
      /\ UNCHANGED <<cdp_vars, if_vars, st_vars, rt_vars, flt_vars, gen_vars, call_vars>>

MainNext ==
  \/ \E script \in FileScripts : \E file \in MainFiles(script) : \E disk \in DiskOutcomes :
       MainGetLines(script, file, disk)
  \/ MainParse
  \/ MainSave
  \/ \E file1 \in RouteFiles : \E file2 \in RouteFiles : MainRoute(file1, file2)

-----------------------------------------------------------------------------
(* Claims on main                                                          *)

\* main's input has no lines: the file cannot be opened or is empty.
MainNoInput == ~main_file[1].exists \/ main_file[1].lines = <<>>

\* C9: in the cdp, interfaces, status and logging scripts, when the input
\* file cannot be opened or holds no lines, main returns 1 and has neither
\* run the parser nor written the CSV file.
C9_NoInputReturnsOne ==
  (main_script \in FileScripts /\ MainNoInput) =>
    /\ main_pc = "returned"
    /\ main_ret.t = "int" /\ main_ret.n = 1
    /\ main_results.t = "NoneType"
    /\ main_csv = <<>>

\* C9 witness: main of the logging script has returned for a file that
\* cannot be opened although the output is writable.
C9_Witness ==
  /\ main_script = "logging"
  /\ ~main_file[1].exists
  /\ main_disk = "ok"
  /\ main_pc = "returned"

\* main came to its end: the route script after test_diff, the others after
\* the save step, which they reach once the records are collected (and, in
\* the interfaces and logging scripts, there is one at least).
MainCompleted ==
  \/ main_script = "route"
  \/ /\ main_results.t = "list"
     /\ main_script \in {"cdp", "status"} \/ Truthy(main_results)

\* C10 (as claimed): main returns 0 when it completes normally, having
\* reached its save step, and returns a value other than 0 on every other
\* path.
C10_ReturnValue ==
  /\ main_pc = "returned" =>
       /\ main_ret.t = "int"
       /\ (main_ret.n = 0) <=> MainCompleted
  /\ main_pc # "raised"

\* main called save: the records are collected and, in the interfaces and
\* logging scripts, there is one at least.
MainCalledSave ==
  /\ main_script \in FileScripts
  /\ main_pc \in {"returned", "raised"}
  /\ main_results.t = "list"
  /\ main_script \in {"cdp", "status"} \/ Truthy(main_results)

\* C19: when the CSV file cannot be opened or the csv writer fails, save
\* only logs the failure: no exception reaches main, and main, the records
\* already parsed, returns what it returns when the file was written.
C19_SaveFailureOnlyLogged ==
  (MainCalledSave /\ main_disk # "ok") =>
    /\ main_pc = "returned"
    /\ main_ret = MainSaveEnd(main_script, main_results, "ok").ret
    /\ main_results.t = "list"

\* C19 happens: main of the cdp script returned with records parsed after
\* the csv writer failed, leaving an output file without rows.
C19_Witness ==
  /\ main_script = "cdp"
  /\ main_pc = "returned"
  /\ main_disk = "csv.Error"
  /\ main_results.t = "list" /\ main_results.items # <<>>
  /\ main_csv = <<[header |-> <<>>, rows |-> <<>>]>>

-----------------------------------------------------------------------------
(* Two generators of one parser instance.  parse (parse_lines) is a        *)
(* generator function: each call makes a generator object with its own     *)
(* frame, and its carry-over state (is_section, n, d, current_proto,       *)
(* current_mask, current_addr) are locals of that frame, assigned at the   *)
(* top of the function.  The parser instance holds nothing parse writes.   *)

\* The parser classes whose parse keeps carry-over state between lines.
GenParsers == {"cdp", "interfaces", "route"}

\* Lines offered to the generators: the ones that set, use and reset the
\* carry-over state of each parser.
GenInputs(parser) ==
  CASE parser = "cdp" ->
         {"Device ID        Local Intrfce     Holdtme    Capability  Platform  Port ID",
          "E-Cat3750X-41Stack",
          "                 Ten 2/4/4         147            R T S I WS-C3750X Ten 2/1/2",
          "switch#show cdp neighbors"}
    [] parser = "interfaces" ->
         {"Gi1 is up, line protocol is up",
          "Te2 is administratively down, line protocol is down (disabled)",
          "  Description: uplink",
          "sw#"}
    [] parser = "route" ->
         {"      10.0.0.0/16 is subnetted, 2 subnets",
          "O E1     100.3.0.0 [110/122] via 10.245.2.2, 7w0d, Vlan102",
          "                  [110/2] via 10.245.12.2, 7w0d, Vlan12"}

MaxGenLines == 2

\* The locals of a generator of the parser before its loop.
GenStart(parser) ==
  CASE parser = "cdp"        -> CdpStart
    [] parser = "interfaces" -> IfStart
    [] parser = "route"      -> RouteStart

\* One iteration of the generator's for loop, to its yield or to its end;
\* parse_lines yields as the last thing an iteration does.
GenToYield(parser, s, raw, at) ==
  CASE parser = "cdp"        -> CdpToYield(s, raw, at)
    [] parser = "interfaces" -> IfToYield(s, raw, at)
    [] parser = "route"      -> RouteStep(s, raw, at)

\* The rest of the iteration over line raw after its yield.
GenResume(parser, s, raw) ==
  CASE parser = "cdp"        -> CdpResume(s)
    [] parser = "interfaces" -> IfResume(s, raw)
    [] parser = "route"      -> s

\* An exception has left the generator: it reads no more lines.
GenRaised(parser, s) == parser = "route" /\ s.exc # ""

\* A fresh parser instance run alone on the lines by a consumer that takes
\* every record: the state of its generator after the last of them, at the
\* yield of the last line when suspended there.
GenAlone(parser, lines, suspended) ==
  LET n == Len(lines)
  IN  Bind(CASE parser = "cdp"        -> CdpRun(CdpStart, SubSeq(lines, 1, n - 1), 1)
             [] parser = "interfaces" -> IfRun(IfStart, SubSeq(lines, 1, n - 1), 1)
             [] parser = "route"      -> RouteRun(RouteStart, SubSeq(lines, 1, n - 1), 1),
           LAMBDA s :
             IF n = 0 \/ GenRaised(parser, s) THEN s
             ELSE IF suspended THEN GenToYield(parser, s, lines[n], n)
             ELSE GenResume(parser, GenToYield(parser, s, lines[n], n), lines[n]))

\* A variant in which the carry-over state belongs to the parser instance:
\* every generator of the instance continues from the state the first one
\* left.
GenFrameOfInstance(frames, g) == frames[1]

\* The frame generator g resumes with: its own.
GenFrame(frames, g) == frames[g]

GenInit ==
  /\ gen_parser = ""
  /\ gen_lines = <<>>
  /\ gen_frames = <<>>
  /\ gen_pc = <<>>

\* A parser is instantiated and parse is called twice on it: two generator
\* objects, none of them started yet.
GenNew(parser) ==
  /\ gen_parser = ""
  /\ gen_parser' = parser
  /\ gen_lines' = << <<>>, <<>> >>
  /\ gen_frames' = <<GenStart(parser), GenStart(parser)>>
  /\ gen_pc' = <<"created", "created">>
  /\ UNCHANGED <<cdp_vars, if_vars, st_vars, rt_vars, flt_vars, main_vars, call_vars>>

\* The inputs next(g) can read in one call: at most MaxGenLines lines.
GenChunks(parser) == UNION {[1..n -> GenInputs(parser)] : n \in 0..MaxGenLines}

\* The generator goes on from the top of its for loop over the lines
\* chunk[k], chunk[k + 1], ..., which come after base lines read before:
\* to the first yield ("suspended"), to an exception ("raised") or to the
\* end of the lines ("done"), having read used of them.
RECURSIVE GenRunToYield(_, _, _, _, _)
GenRunToYield(parser, s, chunk, k, base) ==
  IF k > Len(chunk) THEN [s |-> s, used |-> Len(chunk), pc |-> "done"]
  ELSE Bind(GenToYield(parser, s, chunk[k], base + k), LAMBDA t :
    IF GenRaised(parser, t) THEN [s |-> t, used |-> k, pc |-> "raised"]
    ELSE IF Len(t.out) > Len(s.out) THEN [s |-> t, used |-> k, pc |-> "suspended"]
    ELSE GenRunToYield(parser, t, chunk, k + 1, base))

\* next(g): generator g starts, or goes on after the yield it was suspended
\* at, whatever the other generator has done so far, and reads the lines of
\* chunk, the lines its input holds from there to its next yield, to the
\* exception or to its end: next(g) returns the record, raises the
\* exception or raises StopIteration.
GenNextCall(g, chunk) ==
  /\ gen_parser # ""
  /\ gen_pc[g] \in {"created", "suspended"}
  /\ chunk \in GenChunks(gen_parser)
  /\ Len(gen_lines[g]) + Len(chunk) <= MaxGenLines
  /\ \E s \in {IF gen_pc[g] = "suspended"
               THEN GenResume(gen_parser, GenFrame(gen_frames, g),
                              gen_lines[g][Len(gen_lines[g])])
               ELSE GenFrame(gen_frames, g)} :
       \E r \in {GenRunToYield(gen_parser, s, chunk, 1, Len(gen_lines[g]))} :
         /\ r.used = Len(chunk)
         /\ gen_lines' = [gen_lines EXCEPT ![g] = @ \o chunk]
         /\ gen_frames' = [gen_frames EXCEPT ![g] = r.s]
         /\ gen_pc' = [gen_pc EXCEPT ![g] = r.pc]
  /\ UNCHANGED gen_parser
  /\ UNCHANGED <<cdp_vars, if_vars, st_vars, rt_vars, flt_vars, main_vars, call_vars>>

GenNext ==
  \/ \E parser \in GenParsers : GenNew(parser)
  \/ \E g \in {1, 2} : \E chunk \in UNION {GenChunks(parser) : parser \in GenParsers} :
       GenNextCall(g, chunk)

-----------------------------------------------------------------------------
(* Claims about the carry-over state, checked under SpecGen.               *)

\* C11: the carry-over state of a parser is local to one parse call: with
\* two generators of one instance advanced in any order (one after the
\* other or interleaved), each has yielded exactly what a fresh parser
\* yields for its lines alone, and holds the same carry-over state.
C11_StateLocalToCall ==
  gen_parser # "" =>
    \A g \in {1, 2} :
      gen_frames[g] = GenAlone(gen_parser, gen_lines[g], gen_pc[g] = "suspended")

\* C11 happens: the first generator is suspended at a yield inside a
\* section or route (its carry-over state differs from the initial one) and
\* the second one, on other lines, has yielded and come to its end.
C11_Witness ==
  /\ gen_parser # ""
  /\ gen_pc[1] = "suspended"
  /\ gen_pc[2] = "done"
  /\ gen_lines[1] # <<>>
  /\ gen_lines[2] # <<>>
  /\ gen_lines[1] # gen_lines[2]
  /\ [gen_frames[1] EXCEPT !.out = <<>>] # GenStart(gen_parser)
  /\ gen_frames[1] # gen_frames[2]
  /\ gen_frames[2].out # <<>>

-----------------------------------------------------------------------------
(* Direct calls: a method of a parser class called by itself, outside of   *)
(* parse, on arguments the caller chooses.                                 *)

MaxCdpListLen == 2

\* The lists of at most n lines of show cdp neighbors.
RECURSIVE CdpLists(_)
CdpLists(n) ==
  IF n = 0 THEN {<<>>}
  ELSE LET shorter == CdpLists(n - 1)
       IN  shorter \cup {Append(l, raw) : l \in shorter, raw \in CdpInputs}

CallInit ==
  /\ call_fn = ""
  /\ call_args = <<>>
  /\ call_ret = <<>>

\* parser.make_dict_by_neighbor_lists(lines) of the cdp parser, lines being
\* a list of one line or more.
CallCdpMakeDict(lines) ==
  /\ call_fn = ""
  /\ lines # <<>>
  /\ call_fn' = "make_dict_by_neighbor_lists"
  /\ call_args' = <<lines>>
  /\ call_ret' = make_dict_by_neighbor_lists([i \in 1..Len(lines) |-> CdpChars[lines[i]]])
  /\ UNCHANGED <<cdp_vars, if_vars, st_vars, rt_vars, flt_vars, main_vars, gen_vars>>

\* parser.make_dict_by_line(line) of the interfaces status parser.
CallStatusMakeDict(raw) ==
  /\ call_fn = ""
  /\ call_fn' = "make_dict_by_line"
  /\ call_args' = <<raw>>
  /\ call_ret' = status_make_dict_by_line(StatusChars[raw])
  /\ UNCHANGED <<cdp_vars, if_vars, st_vars, rt_vars, flt_vars, main_vars, gen_vars>>

\* The addresses of the entries that are compared.
CompareAddrs ==
  {<<"1", "0", ".", "0", ".", "0", ".", "0">>,
   <<"1", "0", ".", "0", ".", "0", ".", "2", "5", "5">>,
   <<"1", "0", ".", "0", ".", "1", ".", "0">>,
   <<"1", "0", ".", "0", ".", "2", ".", "0">>,
   <<"1", "0", ".", "1", ".", "0", ".", "0">>,
   <<"1", "1", ".", "0", ".", "0", ".", "0">>}

\* Two entries are constructed and compared with <, >, <= and >=.
CallCompare(a, b) ==
  LET self  == IPv4RouteEntry(PyStr(<<"O">>), PyStr(a), PyStr(<<"2", "4">>), PyStr(<<>>),
                              PyStr(<<>>))
      other == IPv4RouteEntry(PyStr(<<"O">>), PyStr(b), PyStr(<<"2", "4">>), PyStr(<<>>),
                              PyStr(<<>>))
  IN  /\ call_fn = ""
      /\ call_fn' = "compare"
      /\ call_args' = <<self, other>>
      /\ call_ret' = [op \in {"lt", "gt", "le", "ge"} |-> IPv4RouteEntry_compare(op, self, other)]
      /\ UNCHANGED <<cdp_vars, if_vars, st_vars, rt_vars, flt_vars, main_vars, gen_vars>>

\* The keys and the queries filter_dict is called with: the default key "",
\* three keys of a status record, and queries that are plain words in lower
\* and upper case, patterns, and strings that are no pattern.
FilterKeys == {"", "Status", "Vlan", "Speed"}

FilterQueries ==
  {<<>>, <<"c", "o", "n", "n", "e", "c", "t", "e", "d">>, <<"1", "0", "G">>,
   <<"T", "R", "U", "N", "K">>,
   <<"[", "^", "0", "]">>, <<"1", ".", "G">>, <<"^", "c", "o", "n", "n", "e", "c", "t", "e", "d">>,
   <<"c", "o", "n", "n", ".", "*", "e", "d">>, <<"1", "0", "g", "$">>, <<"a", "|", "b">>,
   <<"^", "\\", "d", "+", "$">>, <<"n", "o", "t", "\\", "s", "?", "c", "o", "n", "n", "e", "c", "t">>,
   <<"(">>, <<"*", "G">>, <<"[", "a">>}

\* f = parser.filter_dict(key, value_query) followed by f(d): what
\* filter_dict returned or raised, what f(d) returned (a TypeError when f is
\* None and cannot be called, nothing when filter_dict raised), and d after
\* the call, which _filter only reads.
CallFilterDict(key, value_query, d) ==
  LET f == filter_dict(key, value_query)
  IN  /\ call_fn = ""
      /\ filter_modelled(value_query)
      /\ call_fn' = "filter_dict"
      /\ call_args' = <<key, value_query, d>>
      /\ call_ret' = [f   |-> f,
                      ret |-> CASE f.t = "function" -> filter_call(f, d)
                                [] f.t = "NoneType" -> Raise("TypeError")
                                [] f.t = "raised"   -> f,
                      d   |-> d]
      /\ UNCHANGED <<cdp_vars, if_vars, st_vars, rt_vars, flt_vars, main_vars, gen_vars>>

CallNext ==
  \/ \E lines \in CdpLists(MaxCdpListLen) : CallCdpMakeDict(lines)
  \/ \E raw \in StatusInputs : CallStatusMakeDict(raw)
  \/ \E a, b \in CompareAddrs : CallCompare(a, b)
  \/ \E key \in FilterKeys : \E q \in FilterQueries : \E d \in FilterDicts :
       CallFilterDict(key, q, d)

-----------------------------------------------------------------------------
(* Claims about the direct calls, checked under SpecCall.                  *)

\* The line make_dict_by_neighbor_lists was given for the columns: the only
\* line, or the second of two.
CdpDataLine == CdpChars[call_args[1][Len(call_args[1])]]

\* The columns of show cdp neighbors after the device id: key, first
\* column, column after the last (0 for the end of the line).
CdpColumns ==
  {<<"local_interface", 17, 35>>, <<"holdtime", 35, 46>>, <<"capability", 46, 58>>,
   <<"platform", 58, 68>>, <<"port_id", 68, 0>>}

\* The stripped content of a column of a line.
CdpColumn(line, c) ==
  strip(IF c[3] = 0 THEN SliceFrom(line, c[2]) ELSE Slice(line, c[2], c[3]))

\* make_dict_by_neighbor_lists was called with one line or with two.
CdpOneOrTwo ==
  call_fn = "make_dict_by_neighbor_lists" /\ Len(call_args[1]) \in {1, 2}

\* The device id of the record: the whole first line stripped when two lines
\* were given, the columns [0:17] of the line when one was.
CdpDeviceIdRight ==
  DictGet(call_ret, "device_id", <<"?">>) =
    IF Len(call_args[1]) = 2 THEN strip(CdpChars[call_args[1][1]])
                             ELSE strip(Slice(CdpChars[call_args[1][1]], 0, 17))

\* C14 (as claimed): make_dict_by_neighbor_lists, given one line or two,
\* returns the device id of the first line and takes local_interface,
\* holdtime, capability, platform and port_id from the fixed columns of the
\* data line (read with d.get(key, ""), as the doctest reads a record).
C14_FixedColumns ==
  CdpOneOrTwo =>
    /\ CdpDeviceIdRight
    /\ \A c \in CdpColumns : DictGet(call_ret, c[1], <<>>) = CdpColumn(CdpDataLine, c)

\* C14 (amended): make_dict_by_neighbor_lists, given one line or two,
\* returns the device id of the first line and takes a field from its fixed
\* column of the data line when the line reaches the end of that column (35,
\* 46, 58, 68 characters, more than 68 for port_id); the record has no key
\* for a column the line does not reach.
C14_ColumnsTheLineReaches ==
  CdpOneOrTwo =>
    /\ CdpDeviceIdRight
    /\ \A c \in CdpColumns :
         IF (c[3] # 0 /\ Len(CdpDataLine) >= c[3]) \/ (c[3] = 0 /\ Len(CdpDataLine) > c[2])
         THEN DictHas(call_ret, c[1]) /\ DictGet(call_ret, c[1], <<"?">>) = CdpColumn(CdpDataLine, c)
         ELSE ~DictHas(call_ret, c[1])

\* C14 happens: make_dict_by_neighbor_lists was given a device id line and a
\* data line that reaches every column, and another call a line that stops
\* inside a column.
C14_Witness ==
  /\ CdpOneOrTwo
  /\ Len(call_args[1]) = 2
  /\ Len(CdpDataLine) > 68
  /\ DictHas(call_ret, "port_id")
  /\ DictGet(call_ret, "device_id", <<>>) # <<>>

\* The columns of show interfaces status: key, first column, column after
\* the last (0 for the end of the line), in the order of the record.
StatusColumns ==
  <<<<"Port", 0, 14>>, <<"Name", 14, 33>>, <<"Status", 33, 46>>, <<"Vlan", 46, 57>>,
    <<"Duplex", 57, 63>>, <<"Speed", 63, 70>>, <<"Type", 70, 0>>>>

\* C15: make_dict_by_line of the interfaces status parser returns, for
\* every line, a record with exactly the seven keys Port, Name, Status,
\* Vlan, Duplex, Speed, Type in that order, each the stripped content of its
\* fixed column, Type being the empty string when the line is not longer
\* than 70 characters.
C15_SevenColumns ==
  call_fn = "make_dict_by_line" =>
    LET line == StatusChars[call_args[1]]
    IN  /\ DictKeys(call_ret) = [i \in 1..Len(StatusColumns) |-> StatusColumns[i][1]]
        /\ \A i \in 1..Len(StatusColumns) :
             LET c == StatusColumns[i]
             IN  call_ret[i][2] = strip(IF c[3] = 0 THEN SliceFrom(line, c[2])
                                                   ELSE Slice(line, c[2], c[3]))
        /\ Len(line) <= min_len => DictGet(call_ret, "Type", <<"?">>) = <<>>

\* C15 happens: make_dict_by_line was given a line longer than 70 characters
\* with a name and a type.
C15_Witness ==
  /\ call_fn = "make_dict_by_line"
  /\ Len(StatusChars[call_args[1]]) > min_len
  /\ DictGet(call_ret, "Name", <<>>) # <<>>
  /\ DictGet(call_ret, "Type", <<>>) # <<>>

\* C15 happens as well on a line that ends before the Type column.
C15_WitnessShort ==
  /\ call_fn = "make_dict_by_line"
  /\ Len(StatusChars[call_args[1]]) <= min_len
  /\ DictGet(call_ret, "Port", <<>>) # <<>>

\* The integer value of a dotted address a.b.c.d: a*2^24 + b*2^16 + c*2^8 + d.
AddressValue(addr) ==
  LET cols == split(addr, ".")
  IN  int(cols[1]) * 256 * 256 * 256 + int(cols[2]) * 256 * 256 + int(cols[3]) * 256
      + int(cols[4])

\* The addr32 of an entry is the integer n.
Addr32Is(e, n) == Len(e.addr32.rep) <= 9 /\ e.addr32.rest + int(e.addr32.rep) = n

\* C16 (as claimed): addr32 is the integer value of the dotted address, so
\* that <, <=, > and >= order entries by numeric IPv4 address.
C16_Addr32OrdersByAddress ==
  call_fn = "compare" =>
    LET x == AddressValue(call_args[1].addr.s)
        y == AddressValue(call_args[2].addr.s)
    IN  /\ Addr32Is(call_args[1], x)
        /\ Addr32Is(call_args[2], y)
        /\ call_ret["lt"] = (x < y)
        /\ call_ret["le"] = (x <= y)
        /\ call_ret["gt"] = (x > y)
        /\ call_ret["ge"] = (x >= y)

\* The string with its letters in lower case.
LowerCase(s) == [i \in 1..Len(s) |-> Lower(s[i])]

\* The value the record of the call holds under the key of the call, the
\* empty string when it has no such key.
FilterValue == DictGet(call_args[3].items, call_args[1], <<>>)

\* The string w is in v at position i (0-based).
WordAt(v, w, i) == i >= 0 /\ i + Len(w) <= Len(v) /\ SubSeq(v, i + 1, i + Len(w)) = w

\* What makes a value v in lower case, without a line break, match a query
\* q of FilterQueries that is a pattern: [^0] a character other than 0, 1.G
\* a 1 and a g with one character between them, ^connected the word at the
\* beginning, conn.*ed conn and later ed, 10g$ the word at the end, a|b one
\* of the two letters, ^\d+$ digits and nothing else, not\s?connect the two
\* words with one white space between them or none.
FilterPatternMet(q, v) ==
  CASE q = <<"[", "^", "0", "]">> -> \E i \in 1..Len(v) : v[i] # "0"
    [] q = <<"1", ".", "G">> ->
         \E i \in 1..Len(v) : i + 2 <= Len(v) /\ v[i] = "1" /\ v[i + 2] = "g"
    [] q = <<"^", "c", "o", "n", "n", "e", "c", "t", "e", "d">> ->
         WordAt(v, <<"c", "o", "n", "n", "e", "c", "t", "e", "d">>, 0)
    [] q = <<"c", "o", "n", "n", ".", "*", "e", "d">> ->
         \E i, j \in 0..Len(v) :
           WordAt(v, <<"c", "o", "n", "n">>, i) /\ j >= i + 4 /\ WordAt(v, <<"e", "d">>, j)
    [] q = <<"1", "0", "g", "$">> -> WordAt(v, <<"1", "0", "g">>, Len(v) - 3)
    [] q = <<"a", "|", "b">> -> \E i \in 1..Len(v) : v[i] \in {"a", "b"}
    [] q = <<"^", "\\", "d", "+", "$">> -> v # <<>> /\ \A i \in 1..Len(v) : v[i] \in Digits
    [] q = <<"n", "o", "t", "\\", "s", "?", "c", "o", "n", "n", "e", "c", "t">> ->
         \E i \in 0..Len(v) :
           /\ WordAt(v, <<"n", "o", "t">>, i)
           /\ \/ WordAt(v, <<"c", "o", "n", "n", "e", "c", "t">>, i + 3)
              \/ /\ WordAt(v, <<"c", "o", "n", "n", "e", "c", "t">>, i + 4)
                 /\ v[i + 4] \in Whitespace
    [] OTHER -> FALSE

\* The queries of FilterQueries that are words: letters and digits only.
FilterWord(q) == \A i \in 1..Len(q) : q[i] \in AsciiLetters \cup Digits

\* The value under the key of the call matches the query of the call, the
\* case of the letters apart: a query that is a word is somewhere in the
\* value, and a pattern is met.
FilterMatches ==
  IF FilterWord(call_args[2])
  THEN find(LowerCase(FilterValue), LowerCase(call_args[2])) >= 0
  ELSE FilterPatternMet(call_args[2], LowerCase(FilterValue))

\* C17: the function returned by filter_dict(key, value_query) for a
\* non-empty key returns the record d it is given when the value under key
\* (the empty string when the key is missing) matches value_query, whatever
\* the case of the letters, and returns None otherwise; d is left as it was.
C17_FilterReturnsRecordOrNone ==
  (call_fn = "filter_dict" /\ call_args[1] # "" /\ call_ret.f.t = "function") =>
    /\ IF FilterMatches
       THEN call_ret.ret = call_args[3]
       ELSE call_ret.ret = PyNone
    /\ call_ret.d = call_args[3]

\* A query that is a word or a pattern gives a function; one that is no
\* pattern gives none, for filter_dict raises re.error.
C17_FunctionOrError ==
  (call_fn = "filter_dict" /\ call_args[1] # "") =>
    call_ret.f.t = IF call_args[2] \in {<<"(">>, <<"*", "G">>, <<"[", "a">>}
                   THEN "raised" ELSE "function"

\* C17 happens: a record was returned for a query, a pattern, that differs
\* from the value in the case of its letters.
C17_Witness ==
  /\ call_fn = "filter_dict"
  /\ call_args[1] # ""
  /\ call_args[2] = <<"1", "0", "g", "$">>
  /\ find(FilterValue, <<"1", "0", "g">>) < 0
  /\ call_ret.ret.t = "dict"
  /\ call_ret.ret = call_args[3]

\* C17 happens as well for a query that is a word and differs from the
\* value in the case of its letters, and for a pattern that is not met.
C17_WitnessWord ==
  /\ call_fn = "filter_dict"
  /\ call_args[1] # ""
  /\ call_args[2] # <<>>
  /\ FilterWord(call_args[2])
  /\ find(FilterValue, call_args[2]) < 0
  /\ call_ret.ret = call_args[3]

C17_WitnessNotMet ==
  /\ call_fn = "filter_dict"
  /\ call_args[1] # ""
  /\ call_args[2] = <<"[", "^", "0", "]">>
  /\ call_ret.f.t = "function"
  /\ call_ret.ret = PyNone

\* C18 (as claimed): filter_dict returns a function that takes a record and
\* returns the record or None, for every key, the empty default key
\* included.
C18_AlwaysAFunction ==
  call_fn = "filter_dict" =>
    /\ call_ret.f.t = "function"
    /\ call_ret.ret.t \in {"dict", "NoneType"}

-----------------------------------------------------------------------------
(* Specifications: each runs one part of the program from the initial      *)
(* state on every input within the bounds.                                 *)

Init == CdpInit /\ IfInit /\ StatusInit /\ RouteInit /\ FilterInit /\ MainInit /\ GenInit /\ CallInit

\* parse of show cdp neighbors on every input of at most MaxCdpLines lines.
SpecCdp == Init /\ [][CdpNext]_vars

\* parse of show interfaces on every input of at most MaxIfLines lines.
SpecIf == Init /\ [][IfNext]_vars

\* parse of show interfaces on every input of at most MaxIfBlockLines lines
\* of IfBlockInputs: long enough for two blocks with detail lines.
SpecIfBlocks == Init /\ [][IfBlocksNext]_vars

\* parse of show interfaces status on every input of at most MaxStatusLines lines.
SpecStatus == Init /\ [][StatusNext]_vars

\* parse_lines of show ip route on every input of at most MaxRouteLines
\* lines, and the direct constructions of an IPv4RouteEntry.
SpecRoute == Init /\ [][RouteNext]_vars

\* get_filter_result on every record and list of filters of the model.
SpecFilter == Init /\ [][FilterNext]_vars

\* main of every script on every input file of the model.
SpecMain == Init /\ [][MainNext]_vars


\* Two generators of one parser instance, advanced in every order, each on
\* every input of at most MaxGenLines lines of GenInputs.
SpecGen == Init /\ [][GenNext]_vars

\* One direct call of a method or function of the scripts, on every
\* argument of the model.
SpecCall == Init /\ [][CallNext]_vars
====
